---------------------------- MODULE Spec2Model ----------------------------
(***************************************************************************)
(* Model of the climate API backend: the filter builder (filters.py), the  *)
(* request handlers /climate, /summary and /trends (app.py) and the        *)
(* analysis functions (app.py, statistics.py).                             *)
(*                                                                         *)
(* Conventions.                                                            *)
(*   - A Python str is a sequence of text fragments (TLA+ strings) whose   *)
(*     concatenation is the text; str + str is \o.  Strings that the code  *)
(*     inspects character by character (quality_threshold, dates) are      *)
(*     sequences of single characters.                                     *)
(*   - A Python value that may be None is a record [none, str].            *)
(*   - A Python float is an exact rational [n, d] with d > 0 in lowest     *)
(*     terms; round(x, k) is round-half-to-even on the exact value.        *)
(*     Where detect_anomalies compares a deviation of exactly 2.0 with     *)
(*     its threshold, the rounding of the doubles decides, and the model   *)
(*     takes either outcome.                                               *)
(*   - One run of the model is one call: Init chooses the operation and    *)
(*     its inputs, the operation's action performs the whole call; a run   *)
(*     of SpecRepeat then makes the same call once more, a run of          *)
(*     SpecReordered makes it on the same series in another order.         *)
(***************************************************************************)
EXTENDS Integers, Sequences, FiniteSets, TLC

VARIABLES
    op,       \* the operation this run calls
    pc,       \* "call" before the operation has run, "done" after
    store,    \* the joined rows of climate_data, locations and metrics
    args,     \* the request's query parameters / the call's keyword arguments
    query,    \* the caller's query string
    params,   \* the caller's params list object
    given,    \* the contents of params, or of data, when the call was made
    data,     \* the series handed to an analysis function
    result,   \* what the operation returned
    previous  \* what the call before this one returned, if it is repeated

vars ==
    <<op, pc, store, args, query, params, given, data, result, previous>>

-----------------------------------------------------------------------------
(* Python values *)

None == [none |-> TRUE, str |-> <<>>]

Some(s) == [none |-> FALSE, str |-> s]

\* Truth value of an optional string: None and '' are false.
Truthy(x) == ~x.none /\ Len(x.str) > 0

UpperToLower ==
    [A |-> "a", B |-> "b", C |-> "c", D |-> "d", E |-> "e", F |-> "f",
     G |-> "g", H |-> "h", I |-> "i", J |-> "j", K |-> "k", L |-> "l",
     M |-> "m", N |-> "n", O |-> "o", P |-> "p", Q |-> "q", R |-> "r",
     S |-> "s", T |-> "t", U |-> "u", V |-> "v", W |-> "w", X |-> "x",
     Y |-> "y", Z |-> "z"]

LowerChar(c) == IF c \in DOMAIN UpperToLower THEN UpperToLower[c] ELSE c

\* Mutant of Lower: the text is looked up as typed.
LowerSkipped(s) == s

\* str.lower() on a string of single characters
Lower(s) == [i \in 1..Len(s) |-> LowerChar(s[i])]

\* sep.join(items), items a list of strings
RECURSIVE Join(_, _)
Join(sep, items) ==
    IF Len(items) = 0 THEN <<>>
    ELSE IF Len(items) = 1 THEN items[1]
    ELSE items[1] \o sep \o Join(sep, Tail(items))

\* [item] * n
Repeat(item, n) == [i \in 1..n |-> item]

\* A date object; str(date) is 'YYYY-MM-DD'.
Date(y, m, d) == [year |-> y, month |-> m, day |-> d]

Digits == <<"0", "1", "2", "3", "4", "5", "6", "7", "8", "9">>

DigitChar(k) == Digits[k + 1]

DigitVal(c) == (CHOOSE k \in 1..10 : Digits[k] = c) - 1

\* str(d) for a datetime.date
DateStr(d) ==
    <<DigitChar(d.year \div 1000), DigitChar((d.year \div 100) % 10),
      DigitChar((d.year \div 10) % 10), DigitChar(d.year % 10), "-",
      DigitChar(d.month \div 10), DigitChar(d.month % 10), "-",
      DigitChar(d.day \div 10), DigitChar(d.day % 10)>>

\* datetime.strptime(s, '%Y-%m-%d') on a well-formed date string
Strptime(s) ==
    Date(DigitVal(s[1]) * 1000 + DigitVal(s[2]) * 100 + DigitVal(s[3]) * 10
             + DigitVal(s[4]),
         DigitVal(s[6]) * 10 + DigitVal(s[7]),
         DigitVal(s[9]) * 10 + DigitVal(s[10]))

IsLeap(y) == (y % 4 = 0) /\ ((y % 100 # 0) \/ (y % 400 = 0))

DaysInMonth(y, m) ==
    IF m = 2 THEN (IF IsLeap(y) THEN 29 ELSE 28)
    ELSE IF m \in {4, 6, 9, 11} THEN 30 ELSE 31

RECURSIVE DaysBeforeMonth(_, _)
DaysBeforeMonth(y, m) ==
    IF m = 1 THEN 0 ELSE DaysBeforeMonth(y, m - 1) + DaysInMonth(y, m - 1)

\* date.toordinal(): the day number on which date differences are taken
Ordinal(d) ==
    LET y == d.year - 1
    IN  y * 365 + (y \div 4) - (y \div 100) + (y \div 400)
            + DaysBeforeMonth(d.year, d.month) + d.day

\* The store's cast of a string of decimal digits to a number
RECURSIVE ParseInt(_)
ParseInt(s) ==
    IF Len(s) = 0 THEN 0
    ELSE ParseInt(SubSeq(s, 1, Len(s) - 1)) * 10 + DigitVal(s[Len(s)])

-----------------------------------------------------------------------------
(* Quality labels *)

poor == <<"p", "o", "o", "r">>

questionable == <<"q", "u", "e", "s", "t", "i", "o", "n", "a", "b", "l", "e">>

good == <<"g", "o", "o", "d">>

excellent == <<"e", "x", "c", "e", "l", "l", "e", "n", "t">>

\* The quality hierarchy poor < questionable < good < excellent
QualityLabels == <<poor, questionable, good, excellent>>

-----------------------------------------------------------------------------
(* filters.py: build_climate_filters *)

\* Mutant of quality_map: 'good' also admits the label below it.
quality_map_one_below ==
    (poor :> <<poor, questionable, good, excellent>>)
        @@ (questionable :> <<questionable, good, excellent>>)
        @@ (good :> <<questionable, good, excellent>>)
        @@ (excellent :> <<excellent>>)

quality_map ==
    (poor :> <<poor, questionable, good, excellent>>)
        @@ (questionable :> <<questionable, good, excellent>>)
        @@ (good :> <<good, excellent>>)
        @@ (excellent :> <<excellent>>)

\* Mutant of quality_map_get: an unknown key falls back to the lowest label.
quality_map_get_fallback(key) ==
    IF key \in DOMAIN quality_map
    THEN [none |-> FALSE, list |-> quality_map[key]]
    ELSE [none |-> FALSE, list |-> quality_map[poor]]

\* quality_map.get(key): the list, or None
quality_map_get(key) ==
    IF key \in DOMAIN quality_map
    THEN [none |-> FALSE, list |-> quality_map[key]]
    ELSE [none |-> TRUE, list |-> <<>>]

\* The quality threshold block: the (query, params) after it.
QualityFilter(q, p, quality_threshold) ==
    IF Truthy(quality_threshold)
    THEN LET allowed_qualities == quality_map_get(Lower(quality_threshold.str))
         IN  IF ~allowed_qualities.none /\ Len(allowed_qualities.list) > 0
             THEN LET placeholders ==
                          Join(<<", ">>,
                               Repeat(<<"%s">>, Len(allowed_qualities.list)))
                  IN  [query |-> q \o <<" AND cd.quality IN (">>
                                    \o placeholders \o <<")">>,
                       params |-> p \o allowed_qualities.list]
             ELSE [query |-> q, params |-> p]
    ELSE [query |-> q, params |-> p]

\* Mutant of OptionalFilter: the clause is added and its parameter is not.
OptionalFilterWithoutParam(qp, value, clause) ==
    IF Truthy(value)
    THEN [query |-> qp.query \o <<clause, "%s">>, params |-> qp.params]
    ELSE qp

\* One optional equality / range filter: the clause and its parameter.
OptionalFilter(qp, value, clause) ==
    IF Truthy(value)
    THEN [query |-> qp.query \o <<clause, "%s">>,
          params |-> Append(qp.params, value.str)]
    ELSE qp

\* The (query, params) build_climate_filters leaves once it has run on the
\* keyword arguments a: query is the new string its local name is bound to,
\* params the list object it was handed, after the appends.
build_climate_filters(q, p, a) ==
    LET f1 == OptionalFilter([query |-> q, params |-> p], a.location_id,
                             " AND cd.location_id = ")
        f2 == OptionalFilter(f1, a.metric, " AND m.name = ")
        f3 == OptionalFilter(f2, a.start_date, " AND cd.date >= ")
        f4 == OptionalFilter(f3, a.end_date, " AND cd.date <= ")
    IN  QualityFilter(f4.query, f4.params, a.quality_threshold)

-----------------------------------------------------------------------------
(* Numbers: a float is an exact rational in lowest terms *)

Abs(x) == IF x < 0 THEN -x ELSE x

RECURSIVE Gcd(_, _)
Gcd(a, b) == IF b = 0 THEN a ELSE Gcd(b, a % b)

Rat(n, d) ==
    LET g == Gcd(Abs(n), Abs(d))
        s == IF d < 0 THEN -1 ELSE 1
    IN  [n |-> (s * n) \div g, d |-> (s * d) \div g]

Num(k) == [n |-> k, d |-> 1]

\* The sums and products are taken over the least common denominator and
\* after cancelling, which keeps the intermediate integers small.
RAdd(a, b) ==
    LET g == Gcd(a.d, b.d)
    IN  Rat(a.n * (b.d \div g) + b.n * (a.d \div g), (a.d \div g) * b.d)

RSub(a, b) == RAdd(a, [n |-> -b.n, d |-> b.d])

RMul(a, b) ==
    LET g1 == Gcd(Abs(a.n), b.d)
        g2 == Gcd(Abs(b.n), a.d)
    IN  IF a.n = 0 \/ b.n = 0 THEN [n |-> 0, d |-> 1]
        ELSE [n |-> (a.n \div g1) * (b.n \div g2),
              d |-> (a.d \div g2) * (b.d \div g1)]

RDiv(a, b) ==
    RMul(a, IF b.n < 0 THEN [n |-> -b.d, d |-> -b.n] ELSE [n |-> b.d, d |-> b.n])

RLt(a, b) == a.n * b.d < b.n * a.d

RLe(a, b) == a.n * b.d <= b.n * a.d

RAbs(a) == [n |-> Abs(a.n), d |-> a.d]

RMin(a, b) == IF RLt(b, a) THEN b ELSE a

RMax(a, b) == IF RLt(a, b) THEN b ELSE a

\* sum(xs)
RECURSIVE RSum(_)
RSum(xs) == IF Len(xs) = 0 THEN Num(0) ELSE RAdd(xs[1], RSum(Tail(xs)))

\* min(xs), max(xs) of a non-empty list
RECURSIVE RMinOf(_)
RMinOf(xs) == IF Len(xs) = 1 THEN xs[1] ELSE RMin(xs[1], RMinOf(Tail(xs)))

RECURSIVE RMaxOf(_)
RMaxOf(xs) == IF Len(xs) = 1 THEN xs[1] ELSE RMax(xs[1], RMaxOf(Tail(xs)))

RECURSIVE Pow10(_)
Pow10(k) == IF k = 0 THEN 1 ELSE 10 * Pow10(k - 1)

\* Mutant of Round: the digits after the k-th are cut off.
RoundCut(x, k) == Rat((x.n * Pow10(k)) \div x.d, Pow10(k))

\* round(x, k): the nearest multiple of 10^-k, a tie going to the even one
Round(x, k) ==
    LET num == x.n * Pow10(k)
        lo == num \div x.d
        rest == num - lo * x.d
    IN  IF 2 * rest < x.d THEN Rat(lo, Pow10(k))
        ELSE IF 2 * rest > x.d THEN Rat(lo + 1, Pow10(k))
        ELSE IF lo % 2 = 0 THEN Rat(lo, Pow10(k))
        ELSE Rat(lo + 1, Pow10(k))

-----------------------------------------------------------------------------
(* The data store: the rows of climate_data joined with locations and metrics *)

location_names == <<<<"Irvine">>, <<"Tokyo">>>>

latitudes == <<Rat(3368, 100), Rat(3568, 100)>>

longitudes == <<Rat(-11783, 100), Rat(13969, 100)>>

temperature == <<"temperature">>

humidity == <<"humidity">>

celsius == <<"celsius">>

percent == <<"percent">>

\* One row of climate_data with its location and its metric joined in
Row(id, loc, metric, unit, date, value, quality) ==
    [id |-> id, location_id |-> loc, location_name |-> location_names[loc],
     latitude |-> latitudes[loc], longitude |-> longitudes[loc],
     metric |-> metric, unit |-> unit, date |-> date, value |-> value,
     quality |-> quality]

\* The number of %s placeholders of a query
RECURSIVE Placeholders(_)
Placeholders(q) ==
    IF Len(q) = 0 THEN 0
    ELSE (IF q[1] = "%s" THEN 1 ELSE 0) + Placeholders(Tail(q))

\* The number of placeholders of the IN list that starts at fragment i
RECURSIVE InListSize(_, _)
InListSize(q, i) ==
    IF i > Len(q) \/ q[i] = ")" THEN 0
    ELSE (IF q[i] = "%s" THEN 1 ELSE 0) + InListSize(q, i + 1)

\* Whether row satisfies the WHERE conditions of q from fragment i on, the
\* placeholders bound in order to the parameters p from j on.
RECURSIVE Where(_, _, _, _, _)
Where(row, q, i, p, j) ==
    IF i > Len(q) THEN TRUE
    ELSE IF q[i] = " AND cd.location_id = "
    THEN row.location_id = ParseInt(p[j]) /\ Where(row, q, i + 2, p, j + 1)
    ELSE IF q[i] = " AND m.name = "
    THEN row.metric = p[j] /\ Where(row, q, i + 2, p, j + 1)
    ELSE IF q[i] = " AND cd.date >= "
    THEN Ordinal(row.date) >= Ordinal(Strptime(p[j]))
             /\ Where(row, q, i + 2, p, j + 1)
    ELSE IF q[i] = " AND cd.date <= "
    THEN Ordinal(row.date) <= Ordinal(Strptime(p[j]))
             /\ Where(row, q, i + 2, p, j + 1)
    ELSE IF q[i] = " AND cd.quality IN ("
    THEN LET k == InListSize(q, i + 1)
         IN  (\E m \in j..(j + k - 1) : row.quality = p[m])
                 /\ Where(row, q, i + 2 * k + 1, p, j + k)
    ELSE Where(row, q, i + 1, p, j)

\* The rows of a list that satisfy the query, in the list's order
RECURSIVE Select(_, _, _)
Select(rows, q, p) ==
    IF Len(rows) = 0 THEN <<>>
    ELSE (IF Where(rows[1], q, 1, p, 1) THEN <<rows[1]>> ELSE <<>>)
             \o Select(Tail(rows), q, p)

\* ORDER BY cd.date: a row put after the rows of an ordered list that are
\* not later than it
RECURSIVE InsertByDate(_, _)
InsertByDate(row, rows) ==
    IF Len(rows) = 0 THEN <<row>>
    ELSE IF Ordinal(rows[1].date) <= Ordinal(row.date)
    THEN <<rows[1]>> \o InsertByDate(row, Tail(rows))
    ELSE <<row>> \o rows

RECURSIVE OrderByDate(_)
OrderByDate(rows) ==
    IF Len(rows) = 0 THEN <<>>
    ELSE InsertByDate(rows[Len(rows)],
                      OrderByDate(SubSeq(rows, 1, Len(rows) - 1)))

\* cursor.execute(query, tuple(params)); cursor.fetchall(): the driver
\* substitutes the parameters for the placeholders and fails when their
\* numbers differ.
Execute(rows, q, p, ordered) ==
    IF Placeholders(q) # Len(p) THEN [error |-> TRUE, rows |-> <<>>]
    ELSE [error |-> FALSE,
          rows |-> IF ordered THEN OrderByDate(Select(rows, q, p))
                   ELSE Select(rows, q, p)]

-----------------------------------------------------------------------------
(* app.py: the filter code the handlers carry inline *)

BaseQuery == <<"SELECT ... WHERE 1=1">>

app_quality_map ==
    (poor :> <<poor, questionable, good, excellent>>)
        @@ (questionable :> <<questionable, good, excellent>>)
        @@ (good :> <<good, excellent>>)
        @@ (excellent :> <<excellent>>)

InlineQualityFilter(q, p, quality_threshold) ==
    IF Truthy(quality_threshold)
    THEN LET key == Lower(quality_threshold.str)
             found == key \in DOMAIN app_quality_map
             allowed_qualities == IF found THEN app_quality_map[key] ELSE <<>>
         IN  IF found /\ Len(allowed_qualities) > 0
             THEN LET placeholders ==
                          Join(<<", ">>, Repeat(<<"%s">>, Len(allowed_qualities)))
                  IN  [query |-> q \o <<" AND cd.quality IN (">>
                                    \o placeholders \o <<")">>,
                       params |-> p \o allowed_qualities]
             ELSE [query |-> q, params |-> p]
    ELSE [query |-> q, params |-> p]

\* Mutant of InlineFilters: the end_date filter is left out.
InlineFiltersWithoutEnd(a) ==
    LET f0 == [query |-> BaseQuery, params |-> <<>>]
        f1 == IF Truthy(a.location_id)
              THEN [query |-> f0.query \o <<" AND cd.location_id = ", "%s">>,
                    params |-> Append(f0.params, a.location_id.str)]
              ELSE f0
        f2 == IF Truthy(a.metric)
              THEN [query |-> f1.query \o <<" AND m.name = ", "%s">>,
                    params |-> Append(f1.params, a.metric.str)]
              ELSE f1
        f3 == IF Truthy(a.start_date)
              THEN [query |-> f2.query \o <<" AND cd.date >= ", "%s">>,
                    params |-> Append(f2.params, a.start_date.str)]
              ELSE f2
    IN  InlineQualityFilter(f3.query, f3.params, a.quality_threshold)

\* Mutant of InlineFilters: the metric filter is left out.
InlineFiltersWithoutMetric(a) ==
    LET f0 == [query |-> BaseQuery, params |-> <<>>]
        f1 == IF Truthy(a.location_id)
              THEN [query |-> f0.query \o <<" AND cd.location_id = ", "%s">>,
                    params |-> Append(f0.params, a.location_id.str)]
              ELSE f0
        f3 == IF Truthy(a.start_date)
              THEN [query |-> f1.query \o <<" AND cd.date >= ", "%s">>,
                    params |-> Append(f1.params, a.start_date.str)]
              ELSE f1
        f4 == IF Truthy(a.end_date)
              THEN [query |-> f3.query \o <<" AND cd.date <= ", "%s">>,
                    params |-> Append(f3.params, a.end_date.str)]
              ELSE f3
    IN  InlineQualityFilter(f4.query, f4.params, a.quality_threshold)

InlineFilters(a) ==
    LET f0 == [query |-> BaseQuery, params |-> <<>>]
        f1 == IF Truthy(a.location_id)
              THEN [query |-> f0.query \o <<" AND cd.location_id = ", "%s">>,
                    params |-> Append(f0.params, a.location_id.str)]
              ELSE f0
        f2 == IF Truthy(a.metric)
              THEN [query |-> f1.query \o <<" AND m.name = ", "%s">>,
                    params |-> Append(f1.params, a.metric.str)]
              ELSE f1
        f3 == IF Truthy(a.start_date)
              THEN [query |-> f2.query \o <<" AND cd.date >= ", "%s">>,
                    params |-> Append(f2.params, a.start_date.str)]
              ELSE f2
        f4 == IF Truthy(a.end_date)
              THEN [query |-> f3.query \o <<" AND cd.date <= ", "%s">>,
                    params |-> Append(f3.params, a.end_date.str)]
              ELSE f3
    IN  InlineQualityFilter(f4.query, f4.params, a.quality_threshold)

\* The rows get_climate_data returns: the date as text
ClimateRow(row) == [row EXCEPT !.date = DateStr(row.date)]

\* The response of /api/v1/climate
get_climate_data(rows, a) ==
    LET f == InlineFilters(a)
        fetched == Execute(rows, f.query \o <<" ORDER BY cd.date">>,
                           f.params, TRUE)
    IN  IF fetched.error THEN [error |-> TRUE]
        ELSE [error |-> FALSE,
              data |-> [i \in 1..Len(fetched.rows) |->
                            ClimateRow(fetched.rows[i])],
              meta |-> [total_count |-> Len(fetched.rows), page |-> 1,
                        per_page |-> 50]]

-----------------------------------------------------------------------------
(* app.py: /api/v1/summary *)

\* Mutant of QUALITY_WEIGHTS: every reading weighs the same.
QUALITY_WEIGHTS_flat ==
    (excellent :> Rat(10, 10)) @@ (good :> Rat(10, 10))
        @@ (questionable :> Rat(10, 10)) @@ (poor :> Rat(10, 10))

QUALITY_WEIGHTS ==
    (excellent :> Rat(10, 10)) @@ (good :> Rat(8, 10))
        @@ (questionable :> Rat(5, 10)) @@ (poor :> Rat(3, 10))

\* The metrics_data of get_summary after its loop over the rows: for each
\* metric met, its values and qualities in row order and the last unit seen.
RECURSIVE SummaryGroups(_)
SummaryGroups(rows) ==
    IF Len(rows) = 0 THEN <<>>
    ELSE LET before == SummaryGroups(SubSeq(rows, 1, Len(rows) - 1))
             row == rows[Len(rows)]
             old == IF row.metric \in DOMAIN before THEN before[row.metric]
                    ELSE [values |-> <<>>, qualities |-> <<>>, unit |-> None]
         IN  [name \in DOMAIN before \cup {row.metric} |->
                 IF name = row.metric
                 THEN [values |-> Append(old.values, row.value),
                       qualities |-> Append(old.qualities, row.quality),
                       unit |-> Some(row.unit)]
                 ELSE before[name]]

\* Counter(qualities).get(label, 0)
CountOf(qualities, label) ==
    Cardinality({i \in 1..Len(qualities) : qualities[i] = label})

\* Mutant of QualityDistribution: the share of good is counted from the
\* readings that are not excellent only.
QualityDistributionSkewed(qualities) ==
    LET total == Len(qualities)
        rest == total - CountOf(qualities, excellent)
    IN  [excellent |-> Rat(CountOf(qualities, excellent), total),
         good |-> IF rest = 0 THEN Num(0)
                  ELSE Rat(CountOf(qualities, good), rest),
         questionable |-> Rat(CountOf(qualities, questionable), total),
         poor |-> Rat(CountOf(qualities, poor), total)]

QualityDistribution(qualities) ==
    LET total == Len(qualities)
    IN  [excellent |-> Rat(CountOf(qualities, excellent), total),
         good |-> Rat(CountOf(qualities, good), total),
         questionable |-> Rat(CountOf(qualities, questionable), total),
         poor |-> Rat(CountOf(qualities, poor), total)]

\* sum(v * QUALITY_WEIGHTS[q] for v, q in zip(values, qualities))
WeightedSum(values, qualities) ==
    RSum([i \in 1..Len(values) |-> RMul(values[i], QUALITY_WEIGHTS[qualities[i]])])

\* sum(QUALITY_WEIGHTS[q] for q in qualities)
WeightSum(qualities) ==
    RSum([i \in 1..Len(qualities) |-> QUALITY_WEIGHTS[qualities[i]]])

\* The statistics of one metric with at least one reading
SummaryOf(group) ==
    [min |-> RMinOf(group.values),
     max |-> RMaxOf(group.values),
     avg |-> RDiv(RSum(group.values), Num(Len(group.values))),
     unit |-> group.unit,
     weighted_avg |-> RDiv(WeightedSum(group.values, group.qualities),
                           WeightSum(group.qualities)),
     quality_distribution |-> QualityDistribution(group.qualities)]

\* The response of /api/v1/summary; the query has no ORDER BY
get_summary(rows, a) ==
    LET f == InlineFilters(a)
        fetched == Execute(rows, f.query, f.params, FALSE)
        metrics_data == SummaryGroups(fetched.rows)
    IN  IF fetched.error THEN [error |-> TRUE]
        ELSE [error |-> FALSE,
              data |-> [name \in {k \in DOMAIN metrics_data :
                                     Len(metrics_data[k].values) > 0} |->
                            SummaryOf(metrics_data[name])]]

-----------------------------------------------------------------------------
(* statistics.py and app.py: calculate_trend *)

\* A value that is not a number (the result of 0.0 / 0.0)
NaN == [n |-> 0, d |-> 0]

\* str(d) for an entry of data['dates']: a date object or a text
StrOf(d) == IF "text" \in DOMAIN d THEN d.text ELSE DateStr(d)

IsDigitChar(c) == \E k \in 1..10 : Digits[k] = c

\* Whether strptime(s, '%Y-%m-%d') accepts s, a zero-padded date text
WellFormed(s) ==
    /\ Len(s) = 10
    /\ s[5] = "-" /\ s[8] = "-"
    /\ \A i \in {1, 2, 3, 4, 6, 7, 9, 10} : IsDigitChar(s[i])
    /\ Strptime(s).year >= 1
    /\ Strptime(s).month \in 1..12
    /\ Strptime(s).day \in 1..DaysInMonth(Strptime(s).year, Strptime(s).month)

\* f'{unit}'
Format(unit) == IF unit.none THEN <<"None">> ELSE unit.str

\* np.mean(xs)
Mean(xs) == RDiv(RSum(xs), Num(Len(xs)))

\* The outcomes of numpy's least-squares solver on a rank-deficient system
\* whose scaled matrix holds 0/0: LAPACK either reports no convergence, which
\* numpy raises as LinAlgError, or returns coefficients that are not numbers.
LinalgOutcomes == {"raises", "nan"}

\* np.polyfit(x, y, 1): the least-squares line through the points
polyfit(x, y, outcome) ==
    LET n == Len(x)
        sx == RSum([i \in 1..n |-> Num(x[i])])
        sy == RSum(y)
        sxx == RSum([i \in 1..n |-> Num(x[i] * x[i])])
        sxy == RSum([i \in 1..n |-> RMul(Num(x[i]), y[i])])
        den == RSub(RMul(Num(n), sxx), RMul(sx, sx))
    IN  IF den = Num(0)
        THEN [raised |-> outcome = "raises", slope |-> NaN, intercept |-> NaN]
        ELSE LET slope == RDiv(RSub(RMul(Num(n), sxy), RMul(sx, sy)), den)
             IN  [raised |-> FALSE, slope |-> slope,
                  intercept |-> RDiv(RSub(sy, RMul(slope, sx)), Num(n))]

\* Mutant of polyval: the coefficients are taken in the wrong order.
polyval_swapped(c, x) ==
    [i \in 1..Len(x) |-> RAdd(RMul(c.intercept, Num(x[i])), c.slope)]

\* np.polyval(coefficients, x)
polyval(c, x) ==
    [i \in 1..Len(x) |-> RAdd(RMul(c.slope, Num(x[i])), c.intercept)]

\* np.sum((a - b) ** 2) for a list a and a list b
SumSqDiff(a, b) ==
    RSum([i \in 1..Len(a) |-> RMul(RSub(a[i], b[i]), RSub(a[i], b[i]))])

InsufficientTrend(unit) ==
    [error |-> FALSE, direction |-> "insufficient_data", rate |-> Num(0),
     unit |-> Format(unit) \o <<"/month">>, confidence |-> Num(0)]

Raised(what) == [error |-> TRUE, raised |-> what]

\* Mutant of TrendOfFit: a slope of exactly 0.01 a day counts as stable.
TrendOfFitInclusive(date_objects, values, unit, outcome) ==
    LET days_since_start ==
            [i \in 1..Len(date_objects) |->
                Ordinal(date_objects[i]) - Ordinal(date_objects[1])]
        coefficients == polyfit(days_since_start, values, outcome)
        slope == coefficients.slope
        y_pred == polyval(coefficients, days_since_start)
        ss_tot == SumSqDiff(values, [i \in 1..Len(values) |-> Mean(values)])
    IN  IF coefficients.raised THEN Raised("LinAlgError")
        ELSE IF slope = NaN
        THEN \* every comparison with a NaN is false
             [error |-> FALSE, direction |-> "decreasing", rate |-> NaN,
              unit |-> Format(unit) \o <<"/month">>,
              confidence |-> IF RLt(Num(0), ss_tot) THEN Num(1) ELSE Num(0)]
        ELSE LET ss_res == SumSqDiff(values, y_pred)
                 r_squared == IF RLt(Num(0), ss_tot)
                              THEN RSub(Num(1), RDiv(ss_res, ss_tot))
                              ELSE Num(0)
                 clamped == RMax(Num(0), RMin(Num(1), r_squared))
                 slope_threshold == Rat(1, 100)
                 direction == IF RLe(RAbs(slope), slope_threshold) THEN "stable"
                              ELSE IF RLt(Num(0), slope) THEN "increasing"
                              ELSE "decreasing"
                 rate_per_month == RMul(slope, Num(30))
             IN  [error |-> FALSE, direction |-> direction,
                  rate |-> Round(rate_per_month, 2),
                  unit |-> Format(unit) \o <<"/month">>,
                  confidence |-> Round(clamped, 2)]

\* Mutant of TrendOfFit: a series without spread gets confidence 1.0.
TrendOfFitFlatIsSure(date_objects, values, unit, outcome) ==
    LET days_since_start ==
            [i \in 1..Len(date_objects) |->
                Ordinal(date_objects[i]) - Ordinal(date_objects[1])]
        coefficients == polyfit(days_since_start, values, outcome)
        slope == coefficients.slope
        y_pred == polyval(coefficients, days_since_start)
        ss_tot == SumSqDiff(values, [i \in 1..Len(values) |-> Mean(values)])
    IN  IF coefficients.raised THEN Raised("LinAlgError")
        ELSE IF slope = NaN
        THEN \* every comparison with a NaN is false
             [error |-> FALSE, direction |-> "decreasing", rate |-> NaN,
              unit |-> Format(unit) \o <<"/month">>,
              confidence |-> IF RLt(Num(0), ss_tot) THEN Num(1) ELSE Num(0)]
        ELSE LET ss_res == SumSqDiff(values, y_pred)
                 r_squared == IF RLt(Num(0), ss_tot)
                              THEN RSub(Num(1), RDiv(ss_res, ss_tot))
                              ELSE Num(1)
                 clamped == RMax(Num(0), RMin(Num(1), r_squared))
                 slope_threshold == Rat(1, 100)
                 direction == IF RLt(RAbs(slope), slope_threshold) THEN "stable"
                              ELSE IF RLt(Num(0), slope) THEN "increasing"
                              ELSE "decreasing"
                 rate_per_month == RMul(slope, Num(30))
             IN  [error |-> FALSE, direction |-> direction,
                  rate |-> Round(rate_per_month, 2),
                  unit |-> Format(unit) \o <<"/month">>,
                  confidence |-> Round(clamped, 2)]

\* What calculate_trend returns once the dates are parsed and there are at
\* least 3 points: the fit, R squared, the direction and the rounding.
TrendOfFit(date_objects, values, unit, outcome) ==
    LET days_since_start ==
            [i \in 1..Len(date_objects) |->
                Ordinal(date_objects[i]) - Ordinal(date_objects[1])]
        coefficients == polyfit(days_since_start, values, outcome)
        slope == coefficients.slope
        y_pred == polyval(coefficients, days_since_start)
        ss_tot == SumSqDiff(values, [i \in 1..Len(values) |-> Mean(values)])
    IN  IF coefficients.raised THEN Raised("LinAlgError")
        ELSE IF slope = NaN
        THEN \* every comparison with a NaN is false
             [error |-> FALSE, direction |-> "decreasing", rate |-> NaN,
              unit |-> Format(unit) \o <<"/month">>,
              confidence |-> IF RLt(Num(0), ss_tot) THEN Num(1) ELSE Num(0)]
        ELSE LET ss_res == SumSqDiff(values, y_pred)
                 r_squared == IF RLt(Num(0), ss_tot)
                              THEN RSub(Num(1), RDiv(ss_res, ss_tot))
                              ELSE Num(0)
                 clamped == RMax(Num(0), RMin(Num(1), r_squared))
                 slope_threshold == Rat(1, 100)
                 direction == IF RLt(RAbs(slope), slope_threshold) THEN "stable"
                              ELSE IF RLt(Num(0), slope) THEN "increasing"
                              ELSE "decreasing"
                 rate_per_month == RMul(slope, Num(30))
             IN  [error |-> FALSE, direction |-> direction,
                  rate |-> Round(rate_per_month, 2),
                  unit |-> Format(unit) \o <<"/month">>,
                  confidence |-> Round(clamped, 2)]

\* Mutant of calculate_trend: two points are taken to be enough.
calculate_trend_two_points(d, outcome) ==
    IF Len(d.values) < 2 THEN InsufficientTrend(d.unit)
    ELSE IF \E i \in 1..Len(d.dates) : ~WellFormed(StrOf(d.dates[i]))
    THEN Raised("ValueError")
    ELSE TrendOfFit([i \in 1..Len(d.dates) |-> Strptime(StrOf(d.dates[i]))],
                    d.values, d.unit, outcome)

\* statistics.calculate_trend(data)
calculate_trend(d, outcome) ==
    IF Len(d.values) < 3 THEN InsufficientTrend(d.unit)
    ELSE IF \E i \in 1..Len(d.dates) : ~WellFormed(StrOf(d.dates[i]))
    THEN Raised("ValueError")
    ELSE TrendOfFit([i \in 1..Len(d.dates) |-> Strptime(StrOf(d.dates[i]))],
                    d.values, d.unit, outcome)

\* app.calculate_trend(data): the same text as statistics.calculate_trend
app_calculate_trend(d, outcome) ==
    IF Len(d.values) < 3 THEN InsufficientTrend(d.unit)
    ELSE IF \E i \in 1..Len(d.dates) : ~WellFormed(StrOf(d.dates[i]))
    THEN Raised("ValueError")
    ELSE TrendOfFit([i \in 1..Len(d.dates) |-> Strptime(StrOf(d.dates[i]))],
                    d.values, d.unit, outcome)

-----------------------------------------------------------------------------
(* statistics.py and app.py: detect_anomalies *)

\* The largest k in lo..hi with k * k <= n
RECURSIVE SqrtSearch(_, _, _)
SqrtSearch(n, lo, hi) ==
    IF lo = hi THEN lo
    ELSE LET mid == (lo + hi + 1) \div 2
         IN  IF mid * mid <= n THEN SqrtSearch(n, mid, hi)
             ELSE SqrtSearch(n, lo, mid - 1)

\* The integer part of the square root of n >= 0
ISqrt(n) == SqrtSearch(n, 0, IF n < 46340 THEN n ELSE 46340)

\* round(sqrt(q), 2) for a rational q >= 0: with t the integer part of
\* 200 * sqrt(q), the nearest hundredth is (t + 1) div 2 hundredths, and
\* sqrt(q) lies exactly between two hundredths only if t is odd and exact.
RoundSqrt2(q) ==
    LET part == (q.n % q.d) * 200
        scaled == (q.n \div q.d) * 40000 + (part \div q.d) * 200
                      + ((part % q.d) * 200) \div q.d
        t == ISqrt(scaled)
        tie == t % 2 = 1 /\ Rat(t * t, 40000) = q
        h == IF tie /\ ((t + 1) \div 2) % 2 = 1 THEN (t - 1) \div 2
             ELSE (t + 1) \div 2
    IN  Rat(h, 100)

\* Mutant of Variance: the sample variance, over N - 1.
VarianceOfSample(xs) ==
    RDiv(SumSqDiff(xs, [i \in 1..Len(xs) |-> Mean(xs)]),
         Num(IF Len(xs) > 1 THEN Len(xs) - 1 ELSE 1))

\* np.var(xs): the population variance
Variance(xs) ==
    RDiv(SumSqDiff(xs, [i \in 1..Len(xs) |-> Mean(xs)]), Num(Len(xs)))

\* list.sort(key=deviation, reverse=True): an entry put into a list sorted by
\* falling deviation, after the entries that are not smaller
RECURSIVE InsertByDeviation(_, _)
InsertByDeviation(entry, sorted) ==
    IF Len(sorted) = 0 THEN <<entry>>
    ELSE IF RLe(entry.deviation, sorted[1].deviation)
    THEN <<sorted[1]>> \o InsertByDeviation(entry, Tail(sorted))
    ELSE <<entry>> \o sorted

\* Mutant of SortByDeviation: the list is left in the order of the input.
Unsorted(entries) == entries

RECURSIVE SortByDeviation(_)
SortByDeviation(entries) ==
    IF Len(entries) = 0 THEN <<>>
    ELSE InsertByDeviation(entries[Len(entries)],
                           SortByDeviation(SubSeq(entries, 1, Len(entries) - 1)))

\* The points of d that lie at exactly 2.0 standard deviations from the mean.
\* Of such a point the quotient abs(value - mean) / std_dev computed in
\* doubles is 2.0 or a neighbour of 2.0, since mean and std_dev are rounded:
\* of [20, 20, 20, 20, 50] it is 2.0, of [20, 20, 20, 20, 21] it is
\* 2.0000000000000018 (the mean 20.2 is no double).
AtThreshold(d) ==
    IF Len(d.values) < 3 THEN {}
    ELSE IF Variance(d.values) = Num(0) THEN {}
    ELSE {i \in 1..Len(d.values) :
             LET diff == RSub(d.values[i], Mean(d.values))
             IN  RDiv(RMul(diff, diff), Variance(d.values)) = Num(4)}

\* Which of these points the doubles put above 2.0: any of them
Roundings(d) == SUBSET AtThreshold(d)

\* Mutant of AnomaliesFrom: every entry carries the first point's quality.
RECURSIVE AnomaliesFromFirstQuality(_, _, _, _, _)
AnomaliesFromFirstQuality(d, i, mean, variance, above) ==
    IF i > Len(d.dates) \/ i > Len(d.values) \/ i > Len(d.qualities) THEN <<>>
    ELSE LET diff == RSub(d.values[i], mean)
             squared == RDiv(RMul(diff, diff), variance)
         IN  (IF RLt(Num(4), squared) \/ (squared = Num(4) /\ i \in above)
              THEN <<[date |-> StrOf(d.dates[i]),
                      value |-> Round(d.values[i], 1),
                      deviation |-> RoundSqrt2(squared),
                      quality |-> d.qualities[1]]>>
              ELSE <<>>)
                 \o AnomaliesFromFirstQuality(d, i + 1, mean, variance, above)

\* Mutant of AnomaliesFrom: the threshold is 3.0 deviations.
RECURSIVE AnomaliesFromThreeDeviations(_, _, _, _, _)
AnomaliesFromThreeDeviations(d, i, mean, variance, above) ==
    IF i > Len(d.dates) \/ i > Len(d.values) \/ i > Len(d.qualities) THEN <<>>
    ELSE LET diff == RSub(d.values[i], mean)
             squared == RDiv(RMul(diff, diff), variance)
         IN  (IF RLt(Num(9), squared)
              THEN <<[date |-> StrOf(d.dates[i]),
                      value |-> Round(d.values[i], 1),
                      deviation |-> RoundSqrt2(squared),
                      quality |-> d.qualities[i]]>>
              ELSE <<>>)
                 \o AnomaliesFromThreeDeviations(d, i + 1, mean, variance, above)

\* Mutant of AnomaliesFrom: every entry carries the first date of the lists.
RECURSIVE AnomaliesFromFirstDate(_, _, _, _, _)
AnomaliesFromFirstDate(d, i, mean, variance, above) ==
    IF i > Len(d.dates) \/ i > Len(d.values) \/ i > Len(d.qualities) THEN <<>>
    ELSE LET diff == RSub(d.values[i], mean)
             squared == RDiv(RMul(diff, diff), variance)
         IN  (IF RLt(Num(4), squared) \/ (squared = Num(4) /\ i \in above)
              THEN <<[date |-> StrOf(d.dates[1]),
                      value |-> Round(d.values[i], 1),
                      deviation |-> RoundSqrt2(squared),
                      quality |-> d.qualities[i]]>>
              ELSE <<>>)
                 \o AnomaliesFromFirstDate(d, i + 1, mean, variance, above)

\* Mutant of AnomaliesFrom: the threshold is 1.5 deviations.
RECURSIVE AnomaliesFromLowThreshold(_, _, _, _, _)
AnomaliesFromLowThreshold(d, i, mean, variance, above) ==
    IF i > Len(d.dates) \/ i > Len(d.values) \/ i > Len(d.qualities) THEN <<>>
    ELSE LET diff == RSub(d.values[i], mean)
             squared == RDiv(RMul(diff, diff), variance)
         IN  (IF RLt(Rat(9, 4), squared)
              THEN <<[date |-> StrOf(d.dates[i]),
                      value |-> Round(d.values[i], 1),
                      deviation |-> RoundSqrt2(squared),
                      quality |-> d.qualities[i]]>>
              ELSE <<>>)
                 \o AnomaliesFromLowThreshold(d, i + 1, mean, variance, above)

\* The anomalies in zip(dates, values, qualities) from index i on, given the
\* mean and the variance of the values.  deviation = |value - mean| / std_dev
\* is computed in doubles: it exceeds 2.0 when the exact quotient does (its
\* square exceeds 4), it does not when the exact quotient is below 2.0, and
\* at an exact quotient of 2.0 it does for the points of `above'.
RECURSIVE AnomaliesFrom(_, _, _, _, _)
AnomaliesFrom(d, i, mean, variance, above) ==
    IF i > Len(d.dates) \/ i > Len(d.values) \/ i > Len(d.qualities) THEN <<>>
    ELSE LET diff == RSub(d.values[i], mean)
             squared == RDiv(RMul(diff, diff), variance)
         IN  (IF RLt(Num(4), squared) \/ (squared = Num(4) /\ i \in above)
              THEN <<[date |-> StrOf(d.dates[i]),
                      value |-> Round(d.values[i], 1),
                      deviation |-> RoundSqrt2(squared),
                      quality |-> d.qualities[i]]>>
              ELSE <<>>) \o AnomaliesFrom(d, i + 1, mean, variance, above)

\* Mutant of detect_anomalies: a spread of 0 is not set apart, and every
\* point of a constant series is reported.
detect_anomalies_unguarded(d, above) ==
    IF Len(d.values) < 3 THEN <<>>
    ELSE IF Variance(d.values) = Num(0)
    THEN [i \in 1..Len(d.values) |->
             [date |-> StrOf(d.dates[i]), value |-> Round(d.values[i], 1),
              deviation |-> Num(0), quality |-> d.qualities[i]]]
    ELSE SortByDeviation(AnomaliesFrom(d, 1, Mean(d.values),
                                       Variance(d.values), above))

\* statistics.detect_anomalies(data)
detect_anomalies(d, above) ==
    IF Len(d.values) < 3 THEN <<>>
    ELSE IF Variance(d.values) = Num(0) THEN <<>>
    ELSE SortByDeviation(AnomaliesFrom(d, 1, Mean(d.values),
                                       Variance(d.values), above))

\* app.detect_anomalies(data): the same text as statistics.detect_anomalies
app_detect_anomalies(d, above) ==
    IF Len(d.values) < 3 THEN <<>>
    ELSE IF Variance(d.values) = Num(0) THEN <<>>
    ELSE SortByDeviation(AnomaliesFrom(d, 1, Mean(d.values),
                                       Variance(d.values), above))

-----------------------------------------------------------------------------
(* statistics.py and app.py: detect_seasonality *)

\* Mutant of NotDetected: the record carries an empty pattern.
NotDetectedWithPattern ==
    [error |-> FALSE, detected |-> FALSE, period |-> "none",
     confidence |-> Num(0), pattern |-> <<>>]

NotDetected ==
    [error |-> FALSE, detected |-> FALSE, period |-> "none",
     confidence |-> Num(0)]

Seasons == <<"winter", "spring", "summer", "fall">>

\* Mutant of SeasonOf: the quarters of the calendar year, December in fall.
SeasonOfQuarter(month) ==
    IF month \in {1, 2, 3} THEN "winter"
    ELSE IF month \in {4, 5, 6} THEN "spring"
    ELSE IF month \in {7, 8, 9} THEN "summer"
    ELSE "fall"

\* The season a month is mapped to
SeasonOf(month) ==
    IF month \in {12, 1, 2} THEN "winter"
    ELSE IF month \in {3, 4, 5} THEN "spring"
    ELSE IF month \in {6, 7, 8} THEN "summer"
    ELSE "fall"

\* The keys of seasonal_yearly_data[season] after the first n points of
\* zip(date_objects, values), in the order in which they were inserted
RECURSIVE SeasonYears(_, _, _)
SeasonYears(date_objects, season, n) ==
    IF n = 0 THEN <<>>
    ELSE LET before == SeasonYears(date_objects, season, n - 1)
             year == date_objects[n].year
         IN  IF /\ SeasonOf(date_objects[n].month) = season
                /\ \A k \in 1..Len(before) : before[k] # year
             THEN Append(before, year)
             ELSE before

\* seasonal_yearly_data[season][year] after the first n points
RECURSIVE SeasonYearValues(_, _, _, _, _)
SeasonYearValues(date_objects, values, season, year, n) ==
    IF n = 0 THEN <<>>
    ELSE LET before == SeasonYearValues(date_objects, values, season, year,
                                        n - 1)
         IN  IF /\ SeasonOf(date_objects[n].month) = season
                /\ date_objects[n].year = year
             THEN Append(before, values[n])
             ELSE before

\* The lists of a sequence of lists, one after the other
RECURSIVE Flatten(_)
Flatten(lists) ==
    IF Len(lists) = 0 THEN <<>> ELSE lists[1] \o Flatten(Tail(lists))

\* sorted(keys): the numbers of a set in rising order
RECURSIVE Sorted(_)
Sorted(keys) ==
    IF keys = {} THEN <<>>
    ELSE LET least == CHOOSE k \in keys : \A other \in keys : k <= other
         IN  <<least>> \o Sorted(keys \ {least})

\* Mutant of SeasonTrend: two years are enough for a fit.
SeasonTrendOfTwoYears(season_years, season_yearly_avgs) ==
    IF Len(season_yearly_avgs) >= 2
    THEN LET slope == polyfit(season_years, season_yearly_avgs, "raises").slope
             slope_threshold == Rat(1, 10)
         IN  IF RLt(RAbs(slope), slope_threshold) THEN "stable"
             ELSE IF RLt(Num(0), slope) THEN "increasing"
             ELSE "decreasing"
    ELSE "stable"

\* The trend of one season over the years: the slope of its yearly averages
SeasonTrend(season_years, season_yearly_avgs) ==
    IF Len(season_yearly_avgs) >= 3
    THEN LET slope == polyfit(season_years, season_yearly_avgs, "raises").slope
             slope_threshold == Rat(1, 10)
         IN  IF RLt(RAbs(slope), slope_threshold) THEN "stable"
             ELSE IF RLt(Num(0), slope) THEN "increasing"
             ELSE "decreasing"
    ELSE "stable"

\* What detect_seasonality returns once the dates are parsed and span at
\* least 2 years
SeasonalityOf(date_objects, values) ==
    LET n == IF Len(date_objects) < Len(values) THEN Len(date_objects)
             ELSE Len(values)
        years(season) == SeasonYears(date_objects, season, n)
        year_values(season, year) ==
            SeasonYearValues(date_objects, values, season, year, n)
        all_values(season) ==
            Flatten([k \in 1..Len(years(season)) |->
                        year_values(season, years(season)[k])])
        averaged == {k \in 1..4 : Len(all_values(Seasons[k])) >= 2}
        seasonal_averages == [k \in averaged |-> Mean(all_values(Seasons[k]))]
        avg_list == [i \in 1..Cardinality(averaged) |->
                        seasonal_averages[Sorted(averaged)[i]]]
        between_variance == Variance(avg_list)
        within_variances == [i \in 1..Cardinality(averaged) |->
                                Variance(all_values(Seasons[Sorted(averaged)[i]]))]
        avg_within_variance == Mean(within_variances)
        detected ==
            IF avg_within_variance = Num(0) THEN RLt(Num(0), between_variance)
            ELSE RLt(RMul(avg_within_variance, Num(2)), between_variance)
        confidence ==
            IF avg_within_variance = Num(0) THEN Num(1)
            ELSE RMin(Num(1), RDiv(between_variance,
                                   RMul(avg_within_variance, Num(10))))
        season_years(k) ==
            Sorted({years(Seasons[k])[j] : j \in 1..Len(years(Seasons[k]))})
        season_yearly_avgs(k) ==
            [j \in 1..Len(season_years(k)) |->
                Mean(year_values(Seasons[k], season_years(k)[j]))]
    IN  IF Cardinality(averaged) < 3 THEN NotDetected
        ELSE IF ~detected THEN NotDetected
        ELSE [error |-> FALSE, detected |-> TRUE, period |-> "yearly",
              confidence |-> Round(confidence, 2),
              pattern |->
                  [season \in {Seasons[k] : k \in averaged} |->
                      LET k == CHOOSE k \in averaged : Seasons[k] = season
                      IN  [avg |-> Round(seasonal_averages[k], 1),
                           trend |-> SeasonTrend(season_years(k),
                                                 season_yearly_avgs(k))]]]

\* Mutant of detect_seasonality: one calendar year is taken to be enough.
detect_seasonality_one_year(d) ==
    IF Len(d.dates) = 0 \/ Len(d.values) = 0 THEN NotDetected
    ELSE IF \E i \in 1..Len(d.dates) : ~WellFormed(StrOf(d.dates[i]))
    THEN Raised("ValueError")
    ELSE SeasonalityOf([i \in 1..Len(d.dates) |-> Strptime(StrOf(d.dates[i]))],
                       d.values)

\* statistics.detect_seasonality(data)
detect_seasonality(d) ==
    IF Len(d.dates) = 0 \/ Len(d.values) = 0 THEN NotDetected
    ELSE IF \E i \in 1..Len(d.dates) : ~WellFormed(StrOf(d.dates[i]))
    THEN Raised("ValueError")
    ELSE LET date_objects == [i \in 1..Len(d.dates) |->
                                 Strptime(StrOf(d.dates[i]))]
         IN  IF Cardinality({date_objects[i].year :
                                i \in 1..Len(date_objects)}) < 2
             THEN NotDetected
             ELSE SeasonalityOf(date_objects, d.values)

-----------------------------------------------------------------------------
(* app.py: detect_seasonality and /api/v1/trends *)

\* max(date_objects) - min(date_objects), in days
DateRangeDays(date_objects) ==
    LET days == {Ordinal(date_objects[i]) : i \in 1..Len(date_objects)}
    IN  (CHOOSE hi \in days : \A x \in days : x <= hi)
            - (CHOOSE lo \in days : \A x \in days : lo <= x)

\* app.detect_seasonality(data): every path reports no seasonality
app_detect_seasonality(d) ==
    IF Len(d.dates) = 0 THEN NotDetected
    ELSE IF \E i \in 1..Len(d.dates) : ~WellFormed(StrOf(d.dates[i]))
    THEN Raised("ValueError")
    ELSE IF DateRangeDays([i \in 1..Len(d.dates) |->
                              Strptime(StrOf(d.dates[i]))]) < 180
    THEN NotDetected
    ELSE NotDetected

\* The metrics_data of get_trends after its loop over the rows
RECURSIVE TrendGroups(_)
TrendGroups(rows) ==
    IF Len(rows) = 0 THEN <<>>
    ELSE LET before == TrendGroups(SubSeq(rows, 1, Len(rows) - 1))
             row == rows[Len(rows)]
             old == IF row.metric \in DOMAIN before THEN before[row.metric]
                    ELSE [dates |-> <<>>, values |-> <<>>, qualities |-> <<>>,
                          unit |-> None]
         IN  [name \in DOMAIN before \cup {row.metric} |->
                 IF name = row.metric
                 THEN [dates |-> Append(old.dates, row.date),
                       values |-> Append(old.values, row.value),
                       qualities |-> Append(old.qualities, row.quality),
                       unit |-> Some(row.unit)]
                 ELSE before[name]]

\* The points at exactly 2.0 deviations in the series get_trends hands to
\* detect_anomalies, by their index in their series
TrendThresholds(rows, a) ==
    LET f == InlineFilters(a)
        fetched == Execute(rows, f.query \o <<" ORDER BY m.name, cd.date">>,
                           f.params, TRUE)
        metrics_data == TrendGroups(fetched.rows)
    IN  IF fetched.error THEN {}
        ELSE UNION {AtThreshold(metrics_data[name]) :
                       name \in DOMAIN metrics_data}

\* The response of /api/v1/trends.  ORDER BY m.name, cd.date: the rows of a
\* metric come in date order; the order of the metrics only decides the order
\* in which the keys of the result are inserted.
get_trends(rows, a, outcome, above) ==
    LET f == InlineFilters(a)
        fetched == Execute(rows, f.query \o <<" ORDER BY m.name, cd.date">>,
                           f.params, TRUE)
        metrics_data == TrendGroups(fetched.rows)
        names == {k \in DOMAIN metrics_data : Len(metrics_data[k].values) > 0}
        trends == [name \in names |->
                      app_calculate_trend(metrics_data[name], outcome)]
        seasons == [name \in names |->
                       app_detect_seasonality(metrics_data[name])]
    IN  IF fetched.error THEN [error |-> TRUE]
        ELSE IF \E name \in names : trends[name].error
        THEN Raised("LinAlgError")
        ELSE IF \E name \in names : seasons[name].error
        THEN Raised("ValueError")
        ELSE [error |-> FALSE,
              data |-> [name \in names |->
                           [trend |-> trends[name],
                            anomalies |->
                                app_detect_anomalies(metrics_data[name],
                                                     above),
                            seasonality |-> seasons[name]]]]

-----------------------------------------------------------------------------
(* Inputs *)

StoreA ==
    <<Row(1, 1, temperature, celsius, Date(2025, 1, 1), Num(10), excellent),
      Row(2, 1, temperature, celsius, Date(2025, 1, 2), Num(11), good),
      Row(3, 1, temperature, celsius, Date(2025, 1, 3), Num(12), questionable),
      Row(4, 1, temperature, celsius, Date(2025, 1, 4), Num(40), poor),
      Row(5, 2, temperature, celsius, Date(2025, 1, 2), Rat(225, 10), good),
      Row(6, 1, humidity, percent, Date(2025, 1, 1), Num(55), excellent),
      Row(7, 2, humidity, percent, Date(2025, 1, 3), Num(60), poor),
      Row(8, 2, humidity, percent, Date(2025, 2, 1), Rat(615, 10), excellent)>>

\* The same readings stored in another order, all of one quality
StoreB ==
    <<Row(1, 2, humidity, percent, Date(2025, 1, 3), Num(60), excellent),
      Row(2, 1, temperature, celsius, Date(2025, 1, 3), Num(12), excellent),
      Row(3, 1, temperature, celsius, Date(2025, 1, 1), Num(10), excellent),
      Row(4, 1, temperature, celsius, Date(2025, 1, 2), Num(11), excellent)>>

\* Temperature readings of three seasons over two years, each season of one
\* value and the values on one line; the winter readings share one date
StoreC ==
    <<Row(1, 1, temperature, celsius, Date(2025, 1, 3), Num(10), excellent),
      Row(2, 2, temperature, celsius, Date(2025, 1, 3), Num(10), good),
      Row(3, 1, temperature, celsius, Date(2025, 1, 3), Num(10), good),
      Row(4, 1, temperature, celsius, Date(2025, 3, 4), Num(16), excellent),
      Row(5, 2, temperature, celsius, Date(2025, 3, 4), Num(16), good),
      Row(6, 1, temperature, celsius, Date(2026, 6, 1), Rat(614, 10),
          excellent),
      Row(7, 2, temperature, celsius, Date(2026, 6, 1), Rat(614, 10), good)>>

Stores == {StoreA, StoreB, StoreC, <<>>}

LocationArgs == {None, Some(<<>>), Some(<<"1">>), Some(<<"2">>), Some(<<"9">>)}

MetricArgs == {None, Some(temperature), Some(<<"nosuch">>)}

StartArgs ==
    {None, Some(DateStr(Date(2025, 1, 2))), Some(DateStr(Date(2025, 3, 1)))}

EndArgs == {None, Some(DateStr(Date(2025, 1, 3)))}

ThresholdArgs ==
    {None, Some(<<>>), Some(poor), Some(questionable), Some(good),
     Some(excellent), Some(<<"G", "O", "O", "D">>), Some(<<"G", "o", "o", "d">>),
     Some(<<"P", "o", "o", "R">>), Some(<<"E", "X", "C", "E", "L", "L", "E", "N", "T">>),
     Some(<<"b", "a", "d">>), Some(<<"g", "o", "o", "d", " ">>)}

Requests ==
    [location_id : LocationArgs, metric : MetricArgs, start_date : StartArgs,
     end_date : EndArgs, quality_threshold : ThresholdArgs]

NoRequest ==
    [location_id |-> None, metric |-> None, start_date |-> None,
     end_date |-> None, quality_threshold |-> None]

\* The params lists a caller hands to build_climate_filters
ParamsLists == {<<>>, <<<<"7">>>>}

NoData == [dates |-> <<>>, values |-> <<>>, qualities |-> <<>>, unit |-> <<>>]

NoResult == [error |-> FALSE]

-----------------------------------------------------------------------------
(* The filter builder and /api/v1/climate *)

InitFilters ==
    /\ op \in {"build_climate_filters", "get_climate_data"}
    /\ pc = "call"
    /\ args \in Requests
    /\ store \in (IF op = "get_climate_data" THEN Stores ELSE {<<>>})
    /\ query = BaseQuery
    /\ params \in (IF op = "build_climate_filters" THEN ParamsLists ELSE {<<>>})
    /\ given = params
    /\ data = NoData
    /\ result = NoResult
    /\ previous = NoResult

\* Mutant of CallBuildClimateFilters: the function works on a copy of params.
CallBuildClimateFiltersOnCopy ==
    /\ pc = "call"
    /\ op = "build_climate_filters"
    /\ LET r == build_climate_filters(query, params, args)
       IN  result' = [error |-> FALSE, query |-> r.query, params |-> r.params]
    /\ pc' = "done"
    /\ UNCHANGED <<op, store, args, query, params, given, data, previous>>

\* A call build_climate_filters(query, params, **args): the function appends to
\* the list object it was handed and rebinds only its own name query.
CallBuildClimateFilters ==
    /\ pc = "call"
    /\ op = "build_climate_filters"
    /\ LET r == build_climate_filters(query, params, args)
       IN  /\ params' = r.params
           /\ result' = [error |-> FALSE, query |-> r.query, params |-> r.params]
    /\ pc' = "done"
    /\ UNCHANGED <<op, store, args, query, given, data, previous>>

GetClimateData ==
    /\ pc = "call"
    /\ op = "get_climate_data"
    /\ result' = get_climate_data(store, args)
    /\ pc' = "done"
    /\ UNCHANGED <<op, store, args, query, params, given, data, previous>>

NextFilters == CallBuildClimateFilters \/ GetClimateData

SpecFilters == InitFilters /\ [][NextFilters]_vars

-----------------------------------------------------------------------------
(* What the filter claims speak of *)

Done(o) == pc = "done" /\ op = o

SameLetter(c, d) ==
    \/ c = d
    \/ c \in DOMAIN UpperToLower /\ UpperToLower[c] = d
    \/ d \in DOMAIN UpperToLower /\ UpperToLower[d] = c

\* Two strings that differ at most in the case of their letters
DiffersOnlyInCase(s, t) ==
    Len(s) = Len(t) /\ \A i \in 1..Len(s) : SameLetter(s[i], t[i])

\* A present threshold that is one of the four labels, whatever its case
Recognized(th) ==
    ~th.none /\ \E k \in 1..4 : DiffersOnlyInCase(th.str, QualityLabels[k])

Rank(label) == CHOOSE k \in 1..4 : DiffersOnlyInCase(label, QualityLabels[k])

AtOrAbove(label) == {QualityLabels[k] : k \in Rank(label)..4}

DateLe(a, b) ==
    \/ a.year < b.year
    \/ a.year = b.year /\ a.month < b.month
    \/ a.year = b.year /\ a.month = b.month /\ a.day <= b.day

\* row satisfies the filters of request a other than the quality threshold
OtherFiltersHold(row, a) ==
    /\ Truthy(a.location_id) => row.location_id = ParseInt(a.location_id.str)
    /\ Truthy(a.metric) => row.metric = a.metric.str
    /\ Truthy(a.start_date) => DateLe(Strptime(a.start_date.str), row.date)
    /\ Truthy(a.end_date) => DateLe(row.date, Strptime(a.end_date.str))

OtherFilterCount(a) ==
    Cardinality({f \in {"location_id", "metric", "start_date", "end_date"} :
                    Truthy(a[f])})

Returned(row) ==
    ~result.error /\ \E j \in 1..Len(result.data) : result.data[j].id = row.id

WithThreshold(a, th) == [a EXCEPT !.quality_threshold = th]

\* C1: for a recognized threshold the filter admits exactly the labels at or
\* above it in poor < questionable < good < excellent: the builder appends
\* exactly those labels, one per placeholder, and /climate returns exactly the
\* stored rows of those qualities (that pass the other filters); 'good' admits
\* only good and excellent rows and 'poor' every row.
C1_ThresholdAdmitsAtOrAbove ==
    Recognized(args.quality_threshold) =>
        LET admitted == AtOrAbove(args.quality_threshold.str)
            first == Len(given) + OtherFilterCount(args) + 1
        IN  /\ Done("build_climate_filters") =>
                   /\ {result.params[i] : i \in first..Len(result.params)}
                          = admitted
                   /\ Len(result.params) - first + 1 = Cardinality(admitted)
                   /\ Placeholders(result.query) - OtherFilterCount(args)
                          = Cardinality(admitted)
            /\ Done("get_climate_data") =>
                   \A i \in 1..Len(store) :
                       Returned(store[i]) <=>
                           /\ OtherFiltersHold(store[i], args)
                           /\ store[i].quality \in admitted
                           /\ args.quality_threshold.str = good =>
                                  store[i].quality \in {good, excellent}

C1_Witness ==
    /\ Done("get_climate_data")
    /\ store = StoreA
    /\ args = WithThreshold(NoRequest, Some(good))
    /\ ~result.error
    /\ {result.data[j].id : j \in 1..Len(result.data)} = {1, 2, 5, 6, 8}

\* C2: a quality_threshold that is present but is none of the four labels adds
\* no quality condition and raises no error: the builder returns, and /climate
\* selects, what they do when quality_threshold is absent.
C2_UnknownThresholdIgnored ==
    (~args.quality_threshold.none /\ ~Recognized(args.quality_threshold)) =>
        /\ Done("build_climate_filters") =>
               /\ ~result.error
               /\ \A i \in 1..Len(result.query) :
                      result.query[i] # " AND cd.quality IN ("
               /\ Len(result.params) = Len(given) + OtherFilterCount(args)
               /\ [query |-> result.query, params |-> result.params]
                      = build_climate_filters(query, given,
                                              WithThreshold(args, None))
        /\ Done("get_climate_data") =>
               /\ ~result.error
               /\ result = get_climate_data(store, WithThreshold(args, None))
               /\ \A i \in 1..Len(store) :
                      Returned(store[i]) <=> OtherFiltersHold(store[i], args)

C2_Witness ==
    /\ Done("get_climate_data")
    /\ store = StoreA
    /\ args = WithThreshold(NoRequest, Some(<<"b", "a", "d">>))
    /\ ~result.error
    /\ result.meta.total_count = 8

\* C3: recognition of quality_threshold is case-insensitive: a threshold gives
\* the query, the parameters and the rows that every threshold differing from
\* it only in letter case gives.
C3_CaseInsensitive ==
    \A other \in ThresholdArgs :
        (/\ ~args.quality_threshold.none
         /\ ~other.none
         /\ DiffersOnlyInCase(args.quality_threshold.str, other.str)) =>
            /\ Done("build_climate_filters") =>
                   [query |-> result.query, params |-> result.params]
                       = build_climate_filters(query, given,
                                               WithThreshold(args, other))
            /\ Done("get_climate_data") =>
                   result = get_climate_data(store, WithThreshold(args, other))

C3_Witness ==
    /\ Done("build_climate_filters")
    /\ args.quality_threshold = Some(<<"G", "o", "o", "d">>)
    /\ given = <<>>
    /\ result.params = <<good, excellent>>

\* C4 as claimed: build_climate_filters has no side effects, the caller's
\* query string and params list are unchanged after the call.
C4_NoSideEffects ==
    Done("build_climate_filters") => (query = BaseQuery /\ params = given)

\* C4 as amended: the caller's query string is unchanged, and the caller's
\* params list is extended in place: it is the returned list, namely the list
\* as passed followed by one value for each placeholder of the returned query.
C4_AppendsInPlace ==
    Done("build_climate_filters") =>
        /\ query = BaseQuery
        /\ params = result.params
        /\ Len(params) >= Len(given)
        /\ SubSeq(params, 1, Len(given)) = given
        /\ Len(params) - Len(given) = Placeholders(result.query)

C4_Witness ==
    /\ Done("build_climate_filters")
    /\ given = <<>>
    /\ args.location_id = Some(<<"1">>)
    /\ args.quality_threshold = Some(good)
    /\ Len(params) >= 3

\* The value a filter contributes: none when it is absent or empty
Provided(value) ==
    IF value.none THEN <<>> ELSE IF Len(value.str) = 0 THEN <<>>
    ELSE <<value.str>>

\* The labels a threshold allows, from the threshold's own label upwards
AllowedFrom(th) ==
    IF Recognized(th)
    THEN [k \in 1..(5 - Rank(th.str)) |-> QualityLabels[Rank(th.str) + k - 1]]
    ELSE <<>>

\* The values the filters of a request contribute, in the order location,
\* metric, start_date, end_date, allowed qualities
ExpectedParams(a) ==
    Provided(a.location_id) \o Provided(a.metric) \o Provided(a.start_date)
        \o Provided(a.end_date) \o AllowedFrom(a.quality_threshold)

\* The clause each of these values belongs to
ExpectedClauses(a) ==
    [k \in 1..Len(Provided(a.location_id)) |-> " AND cd.location_id = "]
        \o [k \in 1..Len(Provided(a.metric)) |-> " AND m.name = "]
        \o [k \in 1..Len(Provided(a.start_date)) |-> " AND cd.date >= "]
        \o [k \in 1..Len(Provided(a.end_date)) |-> " AND cd.date <= "]
        \o [k \in 1..Len(AllowedFrom(a.quality_threshold)) |->
               " AND cd.quality IN ("]

FilterClauses ==
    {" AND cd.location_id = ", " AND m.name = ", " AND cd.date >= ",
     " AND cd.date <= ", " AND cd.quality IN ("}

\* The clause in which each placeholder of q stands, placeholder by
\* placeholder, clause being the one that q continues
RECURSIVE ClausesOf(_, _)
ClausesOf(q, clause) ==
    IF Len(q) = 0 THEN <<>>
    ELSE IF q[1] = "%s" THEN <<clause>> \o ClausesOf(Tail(q), clause)
    ELSE IF q[1] \in FilterClauses THEN ClausesOf(Tail(q), q[1])
    ELSE ClausesOf(Tail(q), clause)

\* C27: build_climate_filters keeps placeholders and parameters aligned: for
\* every combination of present and absent filters the '%s' placeholders it
\* appends to the query are as many as the values it appends to params, and
\* stand in the same order (location, metric, start_date, end_date, then the
\* allowed qualities); a filter whose value is absent or empty adds neither.
\* The filters written out in app.py do the same.
C27_PlaceholdersMatchParams ==
    /\ Done("build_climate_filters") =>
           /\ ~result.error
           /\ result.params = given \o ExpectedParams(args)
           /\ ClausesOf(result.query, "") = ExpectedClauses(args)
           /\ Len(ClausesOf(result.query, "")) - Len(ClausesOf(query, ""))
                  = Len(result.params) - Len(given)
    /\ pc = "done" =>
           /\ InlineFilters(args).params = ExpectedParams(args)
           /\ ClausesOf(InlineFilters(args).query, "") = ExpectedClauses(args)

\* C27: every filter present, on a params list that held a value already
C27_Witness ==
    /\ Done("build_climate_filters")
    /\ given = <<<<"7">>>>
    /\ args = [location_id |-> Some(<<"1">>), metric |-> Some(temperature),
               start_date |-> Some(DateStr(Date(2025, 1, 2))),
               end_date |-> Some(DateStr(Date(2025, 1, 3))),
               quality_threshold |-> Some(<<"G", "o", "o", "d">>)]
    /\ result.params = <<<<"7">>, <<"1">>, temperature,
                         DateStr(Date(2025, 1, 2)), DateStr(Date(2025, 1, 3)),
                         good, excellent>>
    /\ Len(ClausesOf(result.query, "")) = 6

\* C27: an empty location and an absent metric add neither clause nor value
C27_EmptyWitness ==
    /\ Done("build_climate_filters")
    /\ given = <<>>
    /\ args.location_id = Some(<<>>)
    /\ args.metric = None
    /\ args.start_date = None
    /\ args.end_date # None
    /\ args.quality_threshold = Some(<<"b", "a", "d">>)
    /\ Len(result.params) = 1
    /\ ClausesOf(result.query, "") = <<" AND cd.date <= ">>

-----------------------------------------------------------------------------
(* /api/v1/summary and /api/v1/trends *)

InitReports ==
    /\ op \in {"get_summary", "get_trends"}
    /\ pc = "call"
    /\ args \in Requests
    /\ store \in Stores
    /\ query = BaseQuery
    /\ params = <<>>
    /\ given = <<>>
    /\ data = NoData
    /\ result = NoResult
    /\ previous = NoResult

GetSummary ==
    /\ pc = "call"
    /\ op = "get_summary"
    /\ result' = get_summary(store, args)
    /\ pc' = "done"
    /\ UNCHANGED <<op, store, args, query, params, given, data, previous>>

GetTrends ==
    /\ pc = "call"
    /\ op = "get_trends"
    /\ \E outcome \in LinalgOutcomes, above \in SUBSET TrendThresholds(store, args) :
           result' = get_trends(store, args, outcome, above)
    /\ pc' = "done"
    /\ UNCHANGED <<op, store, args, query, params, given, data, previous>>

NextReports == GetSummary \/ GetTrends

SpecReports == InitReports /\ [][NextReports]_vars

-----------------------------------------------------------------------------
(* What the summary claims speak of *)

\* row satisfies every filter of request a
Passes(row, a) ==
    /\ OtherFiltersHold(row, a)
    /\ Recognized(a.quality_threshold) =>
           row.quality \in AtOrAbove(a.quality_threshold.str)

\* The stored readings of a metric that match the request
Readings(name) ==
    {i \in 1..Len(store) : Passes(store[i], args) /\ store[i].metric = name}

LabelKeys ==
    {<<"excellent", excellent>>, <<"good", good>>,
     <<"questionable", questionable>>, <<"poor", poor>>}

\* The weight of a quality label, in tenths
Tenths(label) ==
    CASE label = excellent -> 10
      [] label = good -> 8
      [] label = questionable -> 5
      [] label = poor -> 3

\* Over the readings of a metric among the first i stored rows: the sum of
\* the weights (in tenths), and the sum of value times weight (in tenths)
RECURSIVE TenthsOver(_, _)
TenthsOver(i, name) ==
    IF i = 0 THEN 0
    ELSE TenthsOver(i - 1, name)
             + (IF i \in Readings(name) THEN Tenths(store[i].quality) ELSE 0)

RECURSIVE WeightedOver(_, _)
WeightedOver(i, name) ==
    IF i = 0 THEN Num(0)
    ELSE RAdd(WeightedOver(i - 1, name),
              IF i \in Readings(name)
              THEN RMul(store[i].value, Num(Tenths(store[i].quality)))
              ELSE Num(0))

\* C5: for every metric of the summary the quality_distribution has the four
\* keys excellent, good, questionable and poor, each the count of that label
\* among the metric's readings over their number (0 for an absent label),
\* and the four fractions sum to 1.
C5_QualityDistribution ==
    Done("get_summary") =>
        /\ ~result.error
        /\ \A name \in DOMAIN result.data :
               LET qd == result.data[name].quality_distribution
                   total == Cardinality(Readings(name))
               IN  /\ DOMAIN qd = {"excellent", "good", "questionable", "poor"}
                   /\ \A lk \in LabelKeys :
                          LET count == Cardinality({i \in Readings(name) :
                                           store[i].quality = lk[2]})
                          IN  /\ qd[lk[1]].d > 0
                              /\ qd[lk[1]].n * total = count * qd[lk[1]].d
                              /\ count = 0 => qd[lk[1]] = Num(0)
                   /\ RAdd(RAdd(qd.excellent, qd.good),
                           RAdd(qd.questionable, qd.poor)) = Num(1)

C5_Witness ==
    /\ Done("get_summary")
    /\ store = StoreA
    /\ args = NoRequest
    /\ result.data[temperature].quality_distribution.good = Rat(2, 5)
    /\ result.data[humidity].quality_distribution.questionable = Num(0)
    /\ result.data[humidity].quality_distribution.poor = Rat(1, 3)

\* C6: a metric with no matching reading is never a key of the /summary or
\* /trends result: the keys are exactly the metrics that have a matching
\* reading, and when no stored row matches the filters (an unknown location or
\* metric, a start_date after the end_date) the result map is empty.
C6_NoEmptyMetrics ==
    (Done("get_summary") \/ Done("get_trends")) =>
        /\ (\A i \in 1..Len(store) : ~Passes(store[i], args)) =>
               (~result.error /\ DOMAIN result.data = {})
        /\ ~result.error =>
               /\ \A name \in DOMAIN result.data : Readings(name) # {}
               /\ DOMAIN result.data
                      = {store[i].metric : i \in {j \in 1..Len(store) :
                                                     Passes(store[j], args)}}

\* /trends with a start_date after the end_date on a store that has rows
C6_Witness ==
    /\ Done("get_trends")
    /\ store = StoreA
    /\ args = [NoRequest EXCEPT
                   !.start_date = Some(DateStr(Date(2025, 3, 1))),
                   !.end_date = Some(DateStr(Date(2025, 1, 3)))]
    /\ ~result.error
    /\ DOMAIN result.data = {}

\* C7: weighted_avg is the sum of value times quality weight over the sum of
\* the quality weights, with the weights excellent 1.0, good 0.8,
\* questionable 0.5, poor 0.3; when every reading is excellent it equals avg.
C7_WeightedAverage ==
    Done("get_summary") =>
        /\ ~result.error
        /\ \A name \in DOMAIN result.data :
               /\ TenthsOver(Len(store), name) > 0
               /\ RMul(result.data[name].weighted_avg,
                       Num(TenthsOver(Len(store), name)))
                      = WeightedOver(Len(store), name)
               /\ (\A i \in Readings(name) : store[i].quality = excellent) =>
                      result.data[name].weighted_avg = result.data[name].avg

C7_Witness ==
    /\ Done("get_summary")
    /\ store = StoreA
    /\ args = WithThreshold(NoRequest, Some(good))
    /\ result.data[temperature].weighted_avg = Rat(184, 13)
    /\ result.data[temperature].avg = Rat(145, 10)
    /\ result.data[humidity].weighted_avg = Rat(5825, 100)
    /\ result.data[humidity].avg = Rat(5825, 100)

\* C17: the filters combine conjunctively.  /climate returns exactly the
\* stored rows that satisfy every filter provided (a location_id equal to the
\* row's, a metric name equal to the row's, the date not before start_date,
\* the date not after end_date, the quality in the set the threshold
\* allows), each once; the query build_climate_filters returns selects
\* exactly those rows of any store; and a start_date later than the end_date
\* returns no rows.  A filter is provided when its value is not empty, and a
\* threshold allows a set when it is one of the four labels.
C17_FiltersCombineConjunctively ==
    /\ Done("get_climate_data") =>
           /\ ~result.error
           /\ \A j \in 1..Len(result.data) :
                  \E i \in 1..Len(store) :
                      /\ store[i].id = result.data[j].id
                      /\ Passes(store[i], args)
           /\ \A i \in 1..Len(store) : Passes(store[i], args) => Returned(store[i])
           /\ Len(result.data)
                  = Cardinality({i \in 1..Len(store) : Passes(store[i], args)})
           /\ (/\ Truthy(args.start_date)
               /\ Truthy(args.end_date)
               /\ ~DateLe(Strptime(args.start_date.str),
                          Strptime(args.end_date.str)))
                  => result.data = <<>>
    /\ (Done("build_climate_filters") /\ given = <<>>) =>
           \A rows \in Stores :
               \A i \in 1..Len(rows) :
                   Where(rows[i], result.query, 1, result.params, 1)
                       <=> Passes(rows[i], args)

\* C17: four filters at once, which two of the stored rows satisfy
C17_Witness ==
    /\ Done("get_climate_data")
    /\ store = StoreA
    /\ args = [location_id |-> Some(<<"1">>), metric |-> Some(temperature),
               start_date |-> Some(DateStr(Date(2025, 1, 2))),
               end_date |-> Some(DateStr(Date(2025, 1, 3))),
               quality_threshold |-> Some(questionable)]
    /\ ~result.error
    /\ {result.data[j].id : j \in 1..Len(result.data)} = {2, 3}

\* C17: a start_date after the end_date on a store that has rows
C17_EmptyRangeWitness ==
    /\ Done("get_climate_data")
    /\ store = StoreA
    /\ args = [NoRequest EXCEPT
                   !.start_date = Some(DateStr(Date(2025, 3, 1))),
                   !.end_date = Some(DateStr(Date(2025, 1, 3)))]
    /\ ~result.error
    /\ result.data = <<>>

-----------------------------------------------------------------------------
(* What the claims about the wiring of /trends speak of *)

\* The series of a metric that /trends analyses: the stored readings of the
\* metric that match the request, by date
MetricSeries(name) ==
    LET rows == OrderByDate(SelectSeq(store,
                    LAMBDA row : Passes(row, args) /\ row.metric = name))
    IN  [dates |-> [i \in 1..Len(rows) |-> rows[i].date],
         values |-> [i \in 1..Len(rows) |-> rows[i].value],
         qualities |-> [i \in 1..Len(rows) |-> rows[i].quality],
         unit |-> Some(rows[Len(rows)].unit)]

\* C16 as claimed: for every metric of the /trends response the seasonality
\* entry is statistics.detect_seasonality applied to the metric's series, so
\* a multi-year series that satisfies the detection rule is reported with
\* detected true; the trend and anomalies entries are
\* statistics.calculate_trend and statistics.detect_anomalies of that series.
C16_TrendsServeStatistics ==
    (Done("get_trends") /\ ~result.error) =>
        \A name \in DOMAIN result.data :
            /\ result.data[name].seasonality
                   = detect_seasonality(MetricSeries(name))
            /\ result.data[name].trend
                   = calculate_trend(MetricSeries(name), "nan")
            /\ \E above \in Roundings(MetricSeries(name)) :
                   result.data[name].anomalies
                       = detect_anomalies(MetricSeries(name), above)

\* C16, what the handler does: the trend and anomalies entries agree with
\* statistics.py, and the seasonality entry is never detected.
C16_TrendsServeOwnCopies ==
    (Done("get_trends") /\ ~result.error) =>
        \A name \in DOMAIN result.data :
            /\ result.data[name].seasonality = NotDetected
            /\ result.data[name].trend
                   = calculate_trend(MetricSeries(name), "nan")
            /\ \E above \in Roundings(MetricSeries(name)) :
                   result.data[name].anomalies
                       = detect_anomalies(MetricSeries(name), above)

\* C16: a two-year series that statistics.detect_seasonality finds seasonal
\* and /trends reports as not seasonal
C16_StubWitness ==
    /\ Done("get_trends")
    /\ store = StoreC
    /\ args = NoRequest
    /\ ~result.error
    /\ detect_seasonality(MetricSeries(temperature)).detected = TRUE
    /\ result.data[temperature].seasonality.detected = FALSE

-----------------------------------------------------------------------------
(* Calls of calculate_trend *)

\* The longest series the calls enumerate
MaxPoints == 4

TrendValues == {Num(10), Num(11), Num(12), Rat(145, 10)}

\* Date lists: consecutive days, days across the end of February, days 150
\* apart, one day repeated, days that come in pairs, days with gaps, and
\* days 100 apart
ConsecutiveDays ==
    <<Date(2025, 1, 1), Date(2025, 1, 2), Date(2025, 1, 3), Date(2025, 1, 4),
      Date(2025, 1, 5), Date(2025, 1, 6)>>

FebruaryDays ==
    <<Date(2025, 2, 27), Date(2025, 2, 28), Date(2025, 3, 1), Date(2025, 3, 2),
      Date(2025, 3, 3), Date(2025, 3, 4)>>

SparseDays ==
    <<Date(2025, 1, 1), Date(2025, 5, 31), Date(2025, 10, 28),
      Date(2026, 3, 27), Date(2026, 8, 24), Date(2027, 1, 21)>>

SameDay ==
    <<Date(2025, 1, 1), Date(2025, 1, 1), Date(2025, 1, 1), Date(2025, 1, 1),
      Date(2025, 1, 1), Date(2025, 1, 1)>>

PairedDays ==
    <<Date(2025, 1, 1), Date(2025, 1, 1), Date(2025, 1, 2), Date(2025, 1, 2),
      Date(2025, 1, 3), Date(2025, 1, 3)>>

GapDays ==
    <<Date(2025, 1, 1), Date(2025, 1, 2), Date(2025, 1, 4), Date(2025, 1, 8),
      Date(2025, 1, 9), Date(2025, 1, 12)>>

HundredDays ==
    <<Date(2025, 1, 1), Date(2025, 4, 11), Date(2025, 7, 20),
      Date(2025, 10, 28), Date(2026, 2, 5), Date(2026, 5, 16)>>

DateLists ==
    {ConsecutiveDays, FebruaryDays, SparseDays, SameDay, PairedDays, GapDays,
     HundredDays}

\* Dates that strptime rejects, and a dates list shorter than the values
BadDates == {<<[text |-> <<"n", "/", "a">>]>>, <<>>}

Series(dates, values, unit) ==
    [dates |-> dates, values |-> values,
     qualities |-> [i \in 1..Len(values) |-> good], unit |-> unit]

SeriesOfLength(n) ==
    {Series(SubSeq(dates, 1, n), values, Some(celsius)) :
        dates \in DateLists, values \in [1..n -> TrendValues]}

\* Series of fewer than 3 values whose dates are unusable or missing a unit
ShortSeries ==
    {Series(dates, values, unit) :
        dates \in BadDates,
        values \in UNION {[1..n -> TrendValues] : n \in 0..2},
        unit \in {None, Some(celsius)}}

\* The series of the documented examples
ExampleSeries ==
    {Series(SubSeq(ConsecutiveDays, 1, 5),
            <<Num(10), Num(12), Num(14), Num(16), Num(18)>>, Some(celsius)),
     Series(SubSeq(ConsecutiveDays, 1, 3), <<Num(10), Num(11), Num(12)>>,
            Some(celsius))}

TrendSeries ==
    UNION {SeriesOfLength(n) : n \in 0..MaxPoints} \cup ShortSeries
        \cup ExampleSeries

InitTrend ==
    /\ op \in {"calculate_trend", "app_calculate_trend"}
    /\ pc = "call"
    /\ args = NoRequest
    /\ store = <<>>
    /\ query = BaseQuery
    /\ params = <<>>
    /\ given = <<>>
    /\ data \in TrendSeries
    /\ result = NoResult
    /\ previous = NoResult

CallCalculateTrend ==
    /\ pc = "call"
    /\ op = "calculate_trend"
    /\ \E outcome \in LinalgOutcomes : result' = calculate_trend(data, outcome)
    /\ pc' = "done"
    /\ UNCHANGED <<op, store, args, query, params, given, data, previous>>

CallAppCalculateTrend ==
    /\ pc = "call"
    /\ op = "app_calculate_trend"
    /\ \E outcome \in LinalgOutcomes :
           result' = app_calculate_trend(data, outcome)
    /\ pc' = "done"
    /\ UNCHANGED <<op, store, args, query, params, given, data, previous>>

NextTrend == CallCalculateTrend \/ CallAppCalculateTrend

SpecTrend == InitTrend /\ [][NextTrend]_vars

-----------------------------------------------------------------------------
(* What the trend claims speak of *)

TrendDone == Done("calculate_trend") \/ Done("app_calculate_trend")

\* The day offsets of the series' dates from its first date
Offsets(d) ==
    [i \in 1..Len(d.dates) |-> Ordinal(d.dates[i]) - Ordinal(d.dates[1])]

\* The series has at least 3 points with usable dates, not all on one day
Fittable(d) ==
    /\ Len(d.values) >= 3
    /\ Len(d.dates) = Len(d.values)
    /\ \A i \in 1..Len(d.dates) : "year" \in DOMAIN d.dates[i]
    /\ \E i \in 1..Len(d.dates) : d.dates[i] # d.dates[1]

\* The values are an exact linear function of the day offset
PerfectlyLinear(d) ==
    /\ Len(d.values) >= 3
    /\ Len(d.dates) = Len(d.values)
    /\ \A i \in 1..Len(d.dates) : "year" \in DOMAIN d.dates[i]
    /\ \A i, j, k \in 1..Len(d.values) :
           /\ Offsets(d)[i] = Offsets(d)[j] => d.values[i] = d.values[j]
           /\ RMul(RSub(d.values[j], d.values[i]),
                   Num(Offsets(d)[k] - Offsets(d)[i]))
                  = RMul(RSub(d.values[k], d.values[i]),
                         Num(Offsets(d)[j] - Offsets(d)[i]))

\* The slope of a perfectly linear series over at least two days: the rise
\* between its first point and a point on another day, per day
LineSlope(d) ==
    LET j == CHOOSE j \in 1..Len(d.dates) : Offsets(d)[j] # 0
    IN  RDiv(RSub(d.values[j], d.values[1]), Num(Offsets(d)[j]))

\* The least-squares slope: the co-deviation of day and value over the
\* squared deviation of the days
LeastSquaresSlope(d) ==
    LET n == Len(d.values)
        xbar == Mean([i \in 1..n |-> Num(Offsets(d)[i])])
        ybar == Mean(d.values)
        dx == [i \in 1..n |-> RSub(Num(Offsets(d)[i]), xbar)]
    IN  RDiv(RSum([i \in 1..n |-> RMul(dx[i], RSub(d.values[i], ybar))]),
             RSum([i \in 1..n |-> RMul(dx[i], dx[i])]))

UnitPerMonth(d) ==
    (IF d.unit.none THEN <<"None">> ELSE d.unit.str) \o <<"/month">>

\* C8: a series of fewer than 3 points gets direction insufficient_data,
\* rate 0.0, confidence 0.0 and unit '<metric_unit>/month', whatever its
\* dates are: they are not read.
C8_InsufficientData ==
    (TrendDone /\ Len(data.values) < 3) =>
        /\ ~result.error
        /\ result.direction = "insufficient_data"
        /\ result.rate = Num(0)
        /\ result.confidence = Num(0)
        /\ result.unit = UnitPerMonth(data)

C8_Witness ==
    /\ Done("calculate_trend")
    /\ Len(data.values) = 2
    /\ data.dates = <<[text |-> <<"n", "/", "a">>]>>
    /\ ~result.error
    /\ result.direction = "insufficient_data"
    /\ result.unit = <<"celsius", "/month">>

C10_RatePerMonth ==
    (TrendDone /\ Fittable(data)) =>
        /\ ~result.error
        /\ 100 % result.rate.d = 0
        /\ RLe(RAbs(RSub(result.rate, RMul(LeastSquaresSlope(data), Num(30)))),
               Rat(5, 1000))
        /\ (/\ data.values = <<Num(10), Num(11), Num(12)>>
            /\ data.dates = <<Date(2025, 1, 1), Date(2025, 1, 2),
                               Date(2025, 1, 3)>>) =>
               /\ result.direction = "increasing"
               /\ result.rate = Num(30)
               /\ result.confidence = Num(1)

\* A rate that rounding changed: slope 22.5/7 per day, rate 96.43
C10_Witness ==
    /\ Done("calculate_trend")
    /\ data.dates = SubSeq(GapDays, 1, 3)
    /\ data.values = <<Num(10), Num(11), Rat(145, 10)>>
    /\ ~result.error
    /\ result.rate # RMul(LeastSquaresSlope(data), Num(30))
    /\ result.direction = "increasing"

\* The series is what the callers pass: one well-formed date per value
WellFormedSeries(d) ==
    /\ Len(d.dates) = Len(d.values)
    /\ \A i \in 1..Len(d.dates) : WellFormed(StrOf(d.dates[i]))

Directions == {"increasing", "decreasing", "stable", "insufficient_data"}

\* C11 as claimed: for every series of well-formed dates and numeric values,
\* of any length and also when several or all readings share one date,
\* calculate_trend returns a result with direction, rate, unit and
\* confidence; nothing is raised.
C11_AlwaysReturnsTrend ==
    (TrendDone /\ WellFormedSeries(data)) =>
        /\ ~result.error
        /\ result.direction \in Directions
        /\ DOMAIN result = {"error", "direction", "rate", "unit", "confidence"}

\* C18: for a series of at least 3 points (over at least two days, so that
\* the fit has a slope) the direction is 'stable' exactly when the absolute
\* per-day slope is below 0.01, 'increasing' exactly when the slope is at
\* least 0.01 and 'decreasing' exactly when it is at most -0.01; and every
\* direction returned is one of increasing, decreasing, stable,
\* insufficient_data.
C18_DirectionBySlope ==
    /\ (TrendDone /\ ~result.error) => result.direction \in Directions
    /\ (TrendDone /\ Fittable(data)) =>
           LET slope == LeastSquaresSlope(data)
           IN  /\ ~result.error
               /\ result.direction = "stable"
                      <=> (RLt(Rat(-1, 100), slope) /\ RLt(slope, Rat(1, 100)))
               /\ result.direction = "increasing" <=> RLe(Rat(1, 100), slope)
               /\ result.direction = "decreasing" <=> RLe(slope, Rat(-1, 100))

\* C18: a slope of exactly 0.01 a day, [10,11,12] on days 100 apart
C18_Witness ==
    /\ Done("calculate_trend")
    /\ data.dates = SubSeq(HundredDays, 1, 3)
    /\ data.values = <<Num(10), Num(11), Num(12)>>
    /\ LeastSquaresSlope(data) = Rat(1, 100)
    /\ ~result.error
    /\ result.direction = "increasing"

\* C18: a slope of 1/150 a day, which is stable
C18_StableWitness ==
    /\ Done("calculate_trend")
    /\ data.dates = SubSeq(SparseDays, 1, 3)
    /\ data.values = <<Num(10), Num(11), Num(12)>>
    /\ LeastSquaresSlope(data) = Rat(1, 150)
    /\ ~result.error
    /\ result.direction = "stable"

\* All values of the series are the same
Identical(values) == \A i, j \in 1..Len(values) : values[i] = values[j]

C19_PartialWitness ==
    /\ Done("calculate_trend")
    /\ Fittable(data)
    /\ ~result.error
    /\ RLt(Num(0), result.confidence)
    /\ RLt(result.confidence, Num(1))

-----------------------------------------------------------------------------
(* Calls of detect_anomalies *)

\* The longest series of readings the calls enumerate
MaxReadings == 6

AnomalyValues == {Num(20), Num(21), Rat(5025, 100)}

\* n readings on n consecutive days, their qualities going round the labels
ReadingDates(n) == [i \in 1..n |-> Date(2025, 1, i)]

ReadingQualities(n) == [i \in 1..n |-> QualityLabels[((i - 1) % 4) + 1]]

ReadingsOf(values) ==
    [dates |-> ReadingDates(Len(values)), values |-> values,
     qualities |-> ReadingQualities(Len(values)), unit |-> Some(celsius)]

\* Ten readings with two outliers: 50 and -15 on either side of eight
\* readings of 20, the nearer outlier first; and 50 and -10, equally far
TwoOutliers ==
    <<Num(20), Num(20), Num(50), Num(20), Num(20), Num(20), Num(20), Num(-15),
      Num(20), Num(20)>>

EqualOutliers ==
    <<Num(20), Num(20), Num(50), Num(20), Num(20), Num(20), Num(20), Num(-10),
      Num(20), Num(20)>>

\* The two outliers in a series filtered to good or better
GoodReadings ==
    [ReadingsOf(TwoOutliers) EXCEPT
        !.qualities = [i \in 1..10 |-> IF i % 2 = 1 THEN good ELSE excellent]]

\* The series of the documented examples: one outlier, and a constant series;
\* and the series of two outliers
ExampleReadings ==
    {ReadingsOf(<<Num(20), Num(21), Num(19), Num(20), Num(21), Num(19),
                 Num(50)>>),
     ReadingsOf(<<Num(5), Num(5), Num(5), Num(5)>>),
     ReadingsOf(TwoOutliers), ReadingsOf(EqualOutliers), GoodReadings}

AnomalySeries ==
    {ReadingsOf(values) :
        values \in UNION {[1..n -> AnomalyValues] : n \in 0..MaxReadings}}
        \cup ExampleReadings

InitAnomalies ==
    /\ op \in {"detect_anomalies", "app_detect_anomalies"}
    /\ pc = "call"
    /\ args = NoRequest
    /\ store = <<>>
    /\ query = BaseQuery
    /\ params = <<>>
    /\ given = <<>>
    /\ data \in AnomalySeries
    /\ result = NoResult
    /\ previous = NoResult

\* Mutant of CallDetectAnomalies: the call pops the last value off the
\* caller's values list.
CallDetectAnomaliesPoppingValue ==
    /\ pc = "call"
    /\ op = "detect_anomalies"
    /\ \E above \in Roundings(data) :
           result' = [error |-> FALSE,
                      anomalies |-> detect_anomalies(data, above)]
    /\ data' = [data EXCEPT !.values =
                   SubSeq(data.values, 1, Len(data.values) - 1)]
    /\ pc' = "done"
    /\ UNCHANGED <<op, store, args, query, params, given, previous>>

CallDetectAnomalies ==
    /\ pc = "call"
    /\ op = "detect_anomalies"
    /\ \E above \in Roundings(data) :
           result' = [error |-> FALSE,
                      anomalies |-> detect_anomalies(data, above)]
    /\ pc' = "done"
    /\ UNCHANGED <<op, store, args, query, params, given, data, previous>>

CallAppDetectAnomalies ==
    /\ pc = "call"
    /\ op = "app_detect_anomalies"
    /\ \E above \in Roundings(data) :
           result' = [error |-> FALSE,
                      anomalies |-> app_detect_anomalies(data, above)]
    /\ pc' = "done"
    /\ UNCHANGED <<op, store, args, query, params, given, data, previous>>

NextAnomalies == CallDetectAnomalies \/ CallAppDetectAnomalies

SpecAnomalies == InitAnomalies /\ [][NextAnomalies]_vars

-----------------------------------------------------------------------------
(* What the anomaly claims speak of *)

AnomalyDone == Done("detect_anomalies") \/ Done("app_detect_anomalies")

Squared(x) == RMul(x, x)

\* The squared distance of point i from the mean of the values
SquaredDistance(d, i) ==
    Squared(RSub(d.values[i], RDiv(RSum(d.values), Num(Len(d.values)))))

\* The square of the population standard deviation: denominator N
PopulationVariance(d) ==
    RDiv(RSum([i \in 1..Len(d.values) |-> SquaredDistance(d, i)]),
         Num(Len(d.values)))

\* Point i lies more than 2.0 standard deviations from the mean
MoreThanTwoDeviations(d, i) ==
    RLt(RMul(Num(4), PopulationVariance(d)), SquaredDistance(d, i))

\* Point i lies exactly 2.0 standard deviations from the mean
ExactlyTwoDeviations(d, i) ==
    /\ PopulationVariance(d) # Num(0)
    /\ SquaredDistance(d, i) = RMul(Num(4), PopulationVariance(d))

\* Point i is in the returned list (the dates of the series are distinct)
Reported(i) ==
    \E j \in 1..Len(result.anomalies) :
        result.anomalies[j].date = DateStr(data.dates[i])

\* Point k is the single extreme outlier of d: the other values lie within 2
\* of each other and k's value is at least 10 away from each of them
SingleOutlier(d, k) ==
    /\ Len(d.values) >= 3
    /\ \A i, j \in (1..Len(d.values)) \ {k} :
           RLe(RAbs(RSub(d.values[i], d.values[j])), Num(2))
    /\ \A i \in (1..Len(d.values)) \ {k} :
           RLe(Num(10), RAbs(RSub(d.values[k], d.values[i])))

\* The returned list is the one point k, with its date, value and quality
OnlyReports(k) ==
    /\ Len(result.anomalies) = 1
    /\ result.anomalies[1].date = DateStr(data.dates[k])
    /\ result.anomalies[1].quality = data.qualities[k]
    /\ RLe(RAbs(RSub(result.anomalies[1].value, data.values[k])),
           Rat(5, 100))

C13_NoAnomaliesWithoutSpread ==
    (/\ AnomalyDone
     /\ \/ Len(data.values) < 3
        \/ \A i, j \in 1..Len(data.values) : data.values[i] = data.values[j])
        => (~result.error /\ result.anomalies = <<>>)

\* C13: the constant series [5,5,5,5] of the documented example
C13_Witness ==
    /\ Done("detect_anomalies")
    /\ data.values = <<Num(5), Num(5), Num(5), Num(5)>>
    /\ PopulationVariance(data) = Num(0)
    /\ ~result.error
    /\ result.anomalies = <<>>

\* C20 as claimed: for a series of at least 3 points whose standard
\* deviation is not 0, a point is in the list detect_anomalies returns if and
\* only if its distance from the mean, divided by the population standard
\* deviation (denominator N), is strictly greater than 2.0; a point at
\* exactly 2.0 deviations is not reported.
C20_AnomalyIffBeyondTwoDeviations ==
    (/\ AnomalyDone
     /\ Len(data.values) >= 3
     /\ PopulationVariance(data) # Num(0)) =>
        /\ ~result.error
        /\ \A i \in 1..Len(data.values) :
               Reported(i) <=> MoreThanTwoDeviations(data, i)
        /\ \A i \in 1..Len(data.values) :
               ExactlyTwoDeviations(data, i) => ~Reported(i)
        /\ Len(result.anomalies)
               = Cardinality({i \in 1..Len(data.values) :
                                 MoreThanTwoDeviations(data, i)})

\* C20 as amended: for a series of at least 3 points whose standard
\* deviation is not 0, every point more than 2.0 population standard
\* deviations (denominator N) from the mean is in the list detect_anomalies
\* returns and no point less than 2.0 deviations from it is; a point at
\* exactly 2.0 deviations is in the list or not, as the doubles round.
C20_AnomalyBesideTwoDeviations ==
    (/\ AnomalyDone
     /\ Len(data.values) >= 3
     /\ PopulationVariance(data) # Num(0)) =>
        /\ ~result.error
        /\ \A i \in 1..Len(data.values) :
               /\ MoreThanTwoDeviations(data, i) => Reported(i)
               /\ Reported(i) => \/ MoreThanTwoDeviations(data, i)
                                 \/ ExactlyTwoDeviations(data, i)
        /\ Len(result.anomalies)
               = Cardinality({i \in 1..Len(data.values) : Reported(i)})

\* C20: a point at exactly 2.0 deviations that is left out, as the last
\* point of [20,20,20,20,50.25] is when the sum of squares ends with it
C20_Witness ==
    /\ Done("detect_anomalies")
    /\ Len(data.values) = 5
    /\ ExactlyTwoDeviations(data, 5)
    /\ ~Reported(5)
    /\ result.anomalies = <<>>

\* C20: a point at exactly 2.0 deviations that is reported, as the last
\* point of [20,20,20,20,21] is (computed deviation 2.0000000000000018)
C20_RoundedUpWitness ==
    /\ Done("detect_anomalies")
    /\ data.values = <<Num(20), Num(20), Num(20), Num(20), Num(21)>>
    /\ ExactlyTwoDeviations(data, 5)
    /\ Reported(5)
    /\ result.anomalies[1].deviation = Num(2)

\* C20: a point beyond 2.0 deviations that is reported, next to points within
C20_ReportedWitness ==
    /\ Done("detect_anomalies")
    /\ Len(data.values) = 6
    /\ MoreThanTwoDeviations(data, 6)
    /\ Reported(6)
    /\ ~Reported(1)

\* Entry j of the returned list is point i of the series: its date, its
\* quality and its value to one decimal
EntryOfPoint(j, i) ==
    /\ result.anomalies[j].date = DateStr(data.dates[i])
    /\ result.anomalies[j].quality = data.qualities[i]
    /\ result.anomalies[j].value = Round(data.values[i], 1)

\* C21: the list detect_anomalies returns is sorted by deviation in
\* non-increasing order, and each entry is one point of the input series with
\* that point's own date and quality, no point twice; so a series filtered to
\* good or better yields only good or excellent anomalies.
C21_SortedEntriesOfThePoints ==
    AnomalyDone =>
        /\ ~result.error
        /\ \A j \in 1..(Len(result.anomalies) - 1) :
               RLe(result.anomalies[j + 1].deviation,
                   result.anomalies[j].deviation)
        /\ \A j \in 1..Len(result.anomalies) :
               \E i \in 1..Len(data.values) : EntryOfPoint(j, i)
        /\ \A j, k \in 1..Len(result.anomalies) :
               j # k => result.anomalies[j].date # result.anomalies[k].date
        /\ (\A i \in 1..Len(data.qualities) :
                data.qualities[i] \in {good, excellent})
               => \A j \in 1..Len(result.anomalies) :
                      result.anomalies[j].quality \in {good, excellent}

\* C21: two anomalies of a series filtered to good or better, the farther
\* one (the later in the series) first
C21_Witness ==
    /\ Done("detect_anomalies")
    /\ data = GoodReadings
    /\ Len(result.anomalies) = 2
    /\ EntryOfPoint(1, 8)
    /\ EntryOfPoint(2, 3)
    /\ result.anomalies[1].deviation = Rat(237, 100)
    /\ result.anomalies[2].deviation = Rat(209, 100)
    /\ result.anomalies[1].quality = excellent
    /\ result.anomalies[2].quality = good

\* C21: two anomalies equally far from the mean stay in the order of the
\* series
C21_TieWitness ==
    /\ Done("detect_anomalies")
    /\ data.values = EqualOutliers
    /\ Len(result.anomalies) = 2
    /\ EntryOfPoint(1, 3)
    /\ EntryOfPoint(2, 8)
    /\ result.anomalies[1].deviation = result.anomalies[2].deviation

\* C28 as claimed: detect_anomalies returns an empty list for every series
\* of fewer than 6 points, whatever the values, so that the smallest series
\* that can report an anomaly has 6 points.
C28_NoAnomaliesBelowSixPoints ==
    (AnomalyDone /\ Len(data.values) < 6) =>
        (~result.error /\ result.anomalies = <<>>)

\* C28 as amended: detect_anomalies returns an empty list for every series
\* of fewer than 5 points, whatever the values; of a series of 5 points it
\* returns at most one point, which lies at exactly 2.0 standard deviations
\* from the mean, its four other values being equal.
C28_NoAnomaliesBelowFivePoints ==
    (AnomalyDone /\ Len(data.values) < 6) =>
        /\ ~result.error
        /\ Len(data.values) < 5 => result.anomalies = <<>>
        /\ Len(result.anomalies) <= 1
        /\ \A k \in 1..Len(data.values) :
               Reported(k) =>
                   /\ ExactlyTwoDeviations(data, k)
                   /\ \A i, j \in (1..Len(data.values)) \ {k} :
                          data.values[i] = data.values[j]

\* C28: the copy in app.py reports the 20 of [21,21,21,21,20], whose
\* computed deviation is 2.0000000000000018
C28_Witness ==
    /\ Done("app_detect_anomalies")
    /\ data.values = <<Num(21), Num(21), Num(21), Num(21), Num(20)>>
    /\ result.anomalies =
           <<[date |-> DateStr(Date(2025, 1, 5)), value |-> Num(20),
              deviation |-> Num(2), quality |-> poor]>>

\* C28: four points report nothing, however far one of them lies
C28_FourPointsWitness ==
    /\ AnomalyDone
    /\ data.values = <<Num(20), Num(20), Num(20), Rat(5025, 100)>>
    /\ result.anomalies = <<>>

-----------------------------------------------------------------------------
(* Calls of detect_seasonality *)

\* The longest series the calls enumerate along a calendar
MaxSeasonPoints == 6

SeasonValues == {Num(10), Num(12), Num(30)}

\* Calendars: the seasons of one year; three seasons of two years; winter
\* and spring of two years, some of it around the turn of the year
OneYear ==
    <<Date(2025, 1, 15), Date(2025, 4, 15), Date(2025, 7, 15),
      Date(2025, 2, 15), Date(2025, 5, 15), Date(2025, 8, 15),
      Date(2025, 10, 15)>>

TwoYears ==
    <<Date(2024, 1, 15), Date(2025, 1, 15), Date(2024, 4, 15),
      Date(2025, 4, 15), Date(2024, 7, 15), Date(2025, 7, 15),
      Date(2024, 10, 15)>>

TwoSeasons ==
    <<Date(2024, 1, 15), Date(2025, 2, 15), Date(2024, 12, 1),
      Date(2025, 4, 15), Date(2024, 4, 10), Date(2025, 3, 1),
      Date(2024, 5, 31)>>

Calendars == {OneYear, TwoYears, TwoSeasons}

\* Three seasons over three years each, every season rising by 1 a year
ThreeYears ==
    [dates |-> <<Date(2023, 1, 15), Date(2024, 1, 15), Date(2025, 1, 15),
                 Date(2023, 4, 15), Date(2024, 4, 15), Date(2025, 4, 15),
                 Date(2023, 7, 15), Date(2024, 7, 15), Date(2025, 7, 15)>>,
     values |-> <<Num(0), Num(1), Num(2), Num(10), Num(11), Num(12),
                  Num(20), Num(21), Num(22)>>,
     qualities |-> [i \in 1..9 |-> good], unit |-> Some(celsius)]

\* Three seasons of two years that differ by little more than they vary
FaintSeasons ==
    Series(SubSeq(TwoYears, 1, 6),
           <<Num(10), Num(12), Num(12), Num(14), Num(14), Num(16)>>,
           Some(celsius))

\* Three years of winter rising, of spring falling and of summer all but
\* level, and two years of fall
MixedTrends ==
    Series(<<Date(2023, 1, 15), Date(2024, 1, 15), Date(2025, 1, 15),
             Date(2023, 4, 15), Date(2024, 4, 15), Date(2025, 4, 15),
             Date(2025, 7, 15), Date(2023, 7, 15), Date(2024, 7, 15),
             Date(2024, 10, 15), Date(2025, 10, 15)>>,
           <<Num(0), Num(1), Num(2), Num(12), Num(11), Num(10),
             Rat(201, 10), Num(20), Rat(2005, 100), Num(30), Num(31)>>,
           Some(celsius))

\* Winter around two turns of the year, and spring
TurnsOfTheYear ==
    Series(<<Date(2024, 1, 15), Date(2025, 2, 15), Date(2024, 12, 1),
             Date(2025, 12, 31), Date(2024, 4, 15), Date(2025, 4, 15)>>,
           <<Num(10), Num(10), Num(30), Num(30), Num(12), Num(12)>>,
           Some(celsius))

\* Three seasons of two years, and one reading in fall
LoneFall ==
    Series(TwoYears,
           <<Num(10), Num(10), Num(12), Num(12), Num(30), Num(30), Num(10)>>,
           Some(celsius))

SeasonSeries ==
    {Series(SubSeq(dates, 1, Len(values)), values, Some(celsius)) :
        dates \in Calendars,
        values \in UNION {[1..n -> SeasonValues] : n \in 0..MaxSeasonPoints}}
        \cup {ThreeYears, FaintSeasons, MixedTrends, TurnsOfTheYear, LoneFall}

InitSeasonality ==
    /\ op \in {"detect_seasonality", "app_detect_seasonality"}
    /\ pc = "call"
    /\ args = NoRequest
    /\ store = <<>>
    /\ query = BaseQuery
    /\ params = <<>>
    /\ given = <<>>
    /\ data \in SeasonSeries
    /\ result = NoResult
    /\ previous = NoResult

CallDetectSeasonality ==
    /\ pc = "call"
    /\ op = "detect_seasonality"
    /\ result' = detect_seasonality(data)
    /\ pc' = "done"
    /\ UNCHANGED <<op, store, args, query, params, given, data, previous>>

CallAppDetectSeasonality ==
    /\ pc = "call"
    /\ op = "app_detect_seasonality"
    /\ result' = app_detect_seasonality(data)
    /\ pc' = "done"
    /\ UNCHANGED <<op, store, args, query, params, given, data, previous>>

NextSeasonality == CallDetectSeasonality \/ CallAppDetectSeasonality

SpecSeasonality == InitSeasonality /\ [][NextSeasonality]_vars

-----------------------------------------------------------------------------
(* What the seasonality claims speak of *)

SeasonalityDone ==
    Done("detect_seasonality") \/ Done("app_detect_seasonality")

\* The calendar years in which the dates of the series fall
YearsOf(d) == {d.dates[i].year : i \in 1..Len(d.dates)}

\* C14: for every series whose dates fall in fewer than 2 distinct calendar
\* years, the empty series included, detect_seasonality returns detected
\* false, period 'none' and confidence 0.0, whatever the values are.
C14_OneYearIsNotSeasonal ==
    (SeasonalityDone /\ Cardinality(YearsOf(data)) < 2) =>
        /\ ~result.error
        /\ result.detected = FALSE
        /\ result.period = "none"
        /\ result.confidence = Num(0)
        /\ "pattern" \notin DOMAIN result

\* C14: one year whose seasons differ, winter 10, spring 12, summer 30
C14_Witness ==
    /\ Done("detect_seasonality")
    /\ data.dates = SubSeq(OneYear, 1, 6)
    /\ data.values = <<Num(10), Num(12), Num(30), Num(10), Num(12), Num(30)>>
    /\ Cardinality(YearsOf(data)) = 1
    /\ result.detected = FALSE
    /\ result.period = "none"

\* C14: the same values over two years are seasonal
C14_TwoYearsWitness ==
    /\ Done("detect_seasonality")
    /\ data.dates = SubSeq(TwoYears, 1, 6)
    /\ data.values = <<Num(10), Num(10), Num(12), Num(12), Num(30), Num(30)>>
    /\ result.detected = TRUE

\* The season of each month of the year, January first
SeasonOfMonth ==
    <<"winter", "winter", "spring", "spring", "spring", "summer", "summer",
      "summer", "fall", "fall", "fall", "winter">>

SeasonNames == {"winter", "spring", "summer", "fall"}

\* The points of the series that fall in a season, over all years
PointsIn(d, season) ==
    {i \in 1..Len(d.values) : SeasonOfMonth[d.dates[i].month] = season}

\* The seasons that qualify: at least 2 values pooled over all years
Qualifying(d) == {season \in SeasonNames : Cardinality(PointsIn(d, season)) >= 2}

\* The sum of f over the members of a set
RECURSIVE Total(_, _)
Total(f, set) ==
    IF set = {} THEN Num(0)
    ELSE LET x == CHOOSE x \in set : TRUE
         IN  RAdd(f[x], Total(f, set \ {x}))

\* The mean and the population variance of f over a set that is not empty
MeanOver(f, set) == RDiv(Total(f, set), Num(Cardinality(set)))

SpreadOver(f, set) ==
    MeanOver([x \in set |-> Squared(RSub(f[x], MeanOver(f, set)))], set)

\* The mean of a qualifying season
SeasonMean(d, season) == MeanOver(d.values, PointsIn(d, season))

\* The between-season variance: that of the means of the qualifying seasons
BetweenVariance(d) ==
    SpreadOver([season \in Qualifying(d) |-> SeasonMean(d, season)],
               Qualifying(d))

\* The average within-season variance of the qualifying seasons
WithinVariance(d) ==
    MeanOver([season \in Qualifying(d) |->
                 SpreadOver(d.values, PointsIn(d, season))],
             Qualifying(d))

\* The year gate and the season gate pass
GatesPass(d) ==
    /\ Cardinality(YearsOf(d)) >= 2
    /\ Cardinality(Qualifying(d)) >= 3

\* x is y rounded to two decimals
RoundedFrom(x, y) ==
    /\ RLe(RAbs(RSub(x, y)), Rat(5, 1000))
    /\ x = Rat((x.n * 100) \div x.d, 100)

\* C23: once the year gate and the season gate pass, detect_seasonality
\* detects, if the average within-season variance is 0, exactly when the
\* between-season variance is greater than 0, with confidence 1.0; otherwise
\* exactly when the between-season variance is greater than twice the
\* average within-season variance, with confidence min(1.0, between /
\* (within x 10)); both are population variances.
C23_DetectionRule ==
    (Done("detect_seasonality") /\ GatesPass(data)) =>
        /\ ~result.error
        /\ IF WithinVariance(data) = Num(0)
           THEN /\ result.detected <=> RLt(Num(0), BetweenVariance(data))
                /\ result.detected => result.confidence = Num(1)
           ELSE /\ result.detected <=>
                       RLt(RMul(Num(2), WithinVariance(data)),
                           BetweenVariance(data))
                /\ result.detected =>
                       RoundedFrom(result.confidence,
                                   RMin(Num(1),
                                        RDiv(BetweenVariance(data),
                                             RMul(WithinVariance(data),
                                                  Num(10)))))

\* C23: seasons 11, 13 and 15 on average, each varying by 1: between 8/3,
\* within 1, detected with confidence 0.27
C23_Witness ==
    /\ Done("detect_seasonality")
    /\ data = FaintSeasons
    /\ GatesPass(data)
    /\ WithinVariance(data) = Num(1)
    /\ BetweenVariance(data) = Rat(8, 3)
    /\ result.detected = TRUE
    /\ result.confidence = Rat(27, 100)

\* C23: seasons 10, 12 and 11 on average with between exactly twice within
\* are not detected
C23_TwiceWitness ==
    /\ Done("detect_seasonality")
    /\ GatesPass(data)
    /\ WithinVariance(data) # Num(0)
    /\ BetweenVariance(data) = RMul(Num(2), WithinVariance(data))
    /\ result.detected = FALSE

\* C23: seasons that do not vary within and differ from each other
C23_SteadyWitness ==
    /\ Done("detect_seasonality")
    /\ GatesPass(data)
    /\ WithinVariance(data) = Num(0)
    /\ RLt(Num(0), BetweenVariance(data))
    /\ result.detected = TRUE
    /\ result.confidence = Num(1)

\* C24: detect_seasonality reports detected false whenever fewer than 3 of
\* the four seasons qualify, a season qualifying when at least 2 values fall
\* in it over all years, with months 12, 1, 2 in winter, 3, 4, 5 in spring,
\* 6, 7, 8 in summer and 9, 10, 11 in fall.
C24_ThreeSeasonsMustQualify ==
    (Done("detect_seasonality") /\ Cardinality(Qualifying(data)) < 3) =>
        /\ ~result.error
        /\ result.detected = FALSE
        /\ result.period = "none"

\* C24: two years of winter (January, February, December) and of spring,
\* which differ: two seasons qualify, and nothing is detected
C24_Witness ==
    /\ Done("detect_seasonality")
    /\ data = TurnsOfTheYear
    /\ Cardinality(YearsOf(data)) = 2
    /\ Qualifying(data) = {"winter", "spring"}
    /\ Cardinality(PointsIn(data, "winter")) = 4
    /\ result.detected = FALSE

\* C24: three seasons with readings, the third with one reading only
C24_LoneReadingWitness ==
    /\ Done("detect_seasonality")
    /\ Cardinality(YearsOf(data)) = 2
    /\ Cardinality(Qualifying(data)) = 2
    /\ Cardinality({season \in SeasonNames : PointsIn(data, season) # {}}) = 3
    /\ result.detected = FALSE

\* The trends a season can have
SeasonTrends == {"stable", "increasing", "decreasing"}

\* C25: every result of detect_seasonality has one of two shapes: not
\* detected, with period 'none', confidence 0.0 and no pattern key; or
\* detected, with period 'yearly', a confidence above 0 and at most 1, and a
\* pattern whose keys are exactly the qualifying seasons, each with an avg
\* and a trend.
C25_TwoShapes ==
    (SeasonalityDone /\ ~result.error) =>
        \/ /\ result.detected = FALSE
           /\ result.period = "none"
           /\ result.confidence = Num(0)
           /\ DOMAIN result = {"error", "detected", "period", "confidence"}
        \/ /\ result.detected = TRUE
           /\ result.period = "yearly"
           /\ RLt(Num(0), result.confidence)
           /\ RLe(result.confidence, Num(1))
           /\ DOMAIN result
                  = {"error", "detected", "period", "confidence", "pattern"}
           /\ DOMAIN result.pattern = Qualifying(data)
           /\ \A season \in DOMAIN result.pattern :
                  /\ DOMAIN result.pattern[season] = {"avg", "trend"}
                  /\ result.pattern[season].trend \in SeasonTrends
                  /\ RLe(RAbs(RSub(result.pattern[season].avg,
                                    SeasonMean(data, season))),
                         Rat(5, 100))

\* C25: a detected result whose pattern leaves out fall, of which there is
\* one reading only
C25_Witness ==
    /\ Done("detect_seasonality")
    /\ data = LoneFall
    /\ PointsIn(data, "fall") # {}
    /\ result.detected = TRUE
    /\ result.period = "yearly"
    /\ result.confidence = Num(1)
    /\ DOMAIN result.pattern = {"winter", "spring", "summer"}
    /\ result.pattern["summer"] = [avg |-> Num(30), trend |-> "stable"]

\* C25: a result that is not detected, of a series that passes the gates
C25_NotDetectedWitness ==
    /\ Done("detect_seasonality")
    /\ GatesPass(data)
    /\ result.detected = FALSE
    /\ DOMAIN result = {"error", "detected", "period", "confidence"}

\* The years in which a season has data
YearsIn(d, season) == {d.dates[i].year : i \in PointsIn(d, season)}

\* The mean of a season's values of one year
YearMean(d, season, year) ==
    MeanOver(d.values, {i \in PointsIn(d, season) : d.dates[i].year = year})

\* The least-squares slope of a season's yearly means against the year
SeasonSlope(d, season) ==
    LET years == YearsIn(d, season)
        x == [year \in years |-> Num(year)]
        y == [year \in years |-> YearMean(d, season, year)]
        dx == [year \in years |-> RSub(x[year], MeanOver(x, years))]
        dy == [year \in years |-> RSub(y[year], MeanOver(y, years))]
    IN  RDiv(Total([year \in years |-> RMul(dx[year], dy[year])], years),
             Total([year \in years |-> Squared(dx[year])], years))

\* C26: in a detected result a season's trend is 'stable' whenever the
\* season has data in fewer than 3 distinct years; with 3 or more years it
\* is 'stable' if the least-squares slope of yearly mean against year is
\* below 0.1 in absolute value, else 'increasing' if the slope is positive
\* and 'decreasing' if it is negative; the trend field is never left out.
C26_SeasonTrends ==
    (Done("detect_seasonality") /\ ~result.error /\ result.detected) =>
        \A season \in DOMAIN result.pattern :
            /\ "trend" \in DOMAIN result.pattern[season]
            /\ result.pattern[season].trend =
                   IF Cardinality(YearsIn(data, season)) < 3 THEN "stable"
                   ELSE IF RLt(RAbs(SeasonSlope(data, season)), Rat(1, 10))
                   THEN "stable"
                   ELSE IF RLt(Num(0), SeasonSlope(data, season))
                   THEN "increasing"
                   ELSE "decreasing"

\* C26: winter rising by 1 a year, spring falling by 1 a year, summer
\* rising by 0.05 a year, and fall rising by 1 over its two years
C26_Witness ==
    /\ Done("detect_seasonality")
    /\ data = MixedTrends
    /\ result.detected = TRUE
    /\ Cardinality(YearsIn(data, "fall")) = 2
    /\ SeasonSlope(data, "summer") = Rat(5, 100)
    /\ result.pattern["winter"].trend = "increasing"
    /\ result.pattern["spring"].trend = "decreasing"
    /\ result.pattern["summer"].trend = "stable"
    /\ result.pattern["fall"].trend = "stable"

-----------------------------------------------------------------------------
(* An analysis function of statistics.py called twice on the same input *)

InitRepeat ==
    /\ \/ op = "calculate_trend" /\ data \in TrendSeries
       \/ op = "detect_anomalies" /\ data \in AnomalySeries
       \/ op = "detect_seasonality" /\ data \in SeasonSeries
    /\ pc = "call"
    /\ args = NoRequest
    /\ store = <<>>
    /\ query = BaseQuery
    /\ params = <<>>
    /\ given = data
    /\ result = NoResult
    /\ previous = NoResult

\* The least-squares solver of the build that made the first call: the
\* second call of the same process runs the same solver on the same matrix
SolverOf(first) == IF first.error THEN "raises" ELSE "nan"

\* The points at exactly 2.0 deviations that the first call found above 2.0:
\* the second call does the same operations on the same doubles
RoundingOf(first, d) ==
    {i \in AtThreshold(d) :
        \E j \in 1..Len(first.anomalies) :
            first.anomalies[j].date = StrOf(d.dates[i])}

RepeatCalculateTrend ==
    /\ pc = "done"
    /\ op = "calculate_trend"
    /\ previous' = result
    /\ result' = calculate_trend(data, SolverOf(result))
    /\ pc' = "repeated"
    /\ UNCHANGED <<op, store, args, query, params, given, data>>

RepeatDetectAnomalies ==
    /\ pc = "done"
    /\ op = "detect_anomalies"
    /\ previous' = result
    /\ result' = [error |-> FALSE,
                  anomalies |-> detect_anomalies(data,
                                                 RoundingOf(result, given))]
    /\ pc' = "repeated"
    /\ UNCHANGED <<op, store, args, query, params, given, data>>

RepeatDetectSeasonality ==
    /\ pc = "done"
    /\ op = "detect_seasonality"
    /\ previous' = result
    /\ result' = detect_seasonality(data)
    /\ pc' = "repeated"
    /\ UNCHANGED <<op, store, args, query, params, given, data>>

NextRepeat ==
    \/ CallCalculateTrend
    \/ CallDetectAnomalies
    \/ CallDetectSeasonality
    \/ RepeatCalculateTrend
    \/ RepeatDetectAnomalies
    \/ RepeatDetectSeasonality

SpecRepeat == InitRepeat /\ [][NextRepeat]_vars

C15_TrendWitness ==
    /\ pc = "repeated"
    /\ op = "calculate_trend"
    /\ ~result.error
    /\ result.direction = "increasing"
    /\ result = previous

-----------------------------------------------------------------------------
(* detect_anomalies called on a series and on the same triples reordered *)

\* A list with the items at i and j exchanged
Swap(list, i, j) ==
    [k \in 1..Len(list) |->
        IF k = i THEN list[j] ELSE IF k = j THEN list[i] ELSE list[k]]

\* The (date, value, quality) triples of d with those at i and j exchanged
Reordered(d, i, j) ==
    [d EXCEPT !.dates = Swap(d.dates, i, j),
              !.values = Swap(d.values, i, j),
              !.qualities = Swap(d.qualities, i, j)]

InitReordered ==
    /\ op = "detect_anomalies"
    /\ pc = "call"
    /\ args = NoRequest
    /\ store = <<>>
    /\ query = BaseQuery
    /\ params = <<>>
    /\ data \in AnomalySeries
    /\ given = data
    /\ result = NoResult
    /\ previous = NoResult

\* The second call, on the series with its first triple exchanged with
\* another (such exchanges make up every reordering).  np.mean and np.std
\* add the values up in their new order, so the doubles round anew.
ReorderedDetectAnomalies ==
    /\ pc = "done"
    /\ op = "detect_anomalies"
    /\ \E j \in 2..Len(data.values) :
           /\ data' = Reordered(data, 1, j)
           /\ \E above \in Roundings(Reordered(data, 1, j)) :
                  result' = [error |-> FALSE,
                             anomalies |->
                                 detect_anomalies(Reordered(data, 1, j), above)]
    /\ previous' = result
    /\ pc' = "reordered"
    /\ UNCHANGED <<op, store, args, query, params, given>>

NextReordered == CallDetectAnomalies \/ ReorderedDetectAnomalies

SpecReordered == InitReordered /\ [][NextReordered]_vars

\* The entries of a returned list, as a set
Entries(list) == {list[j] : j \in 1..Len(list)}

\* The entry lies at exactly 2.0 deviations from the mean of the series
EntryAtTwoDeviations(entry) ==
    \E i \in 1..Len(given.values) :
        /\ entry.date = DateStr(given.dates[i])
        /\ ExactlyTwoDeviations(given, i)

\* C22 as claimed: the set of anomalies detect_anomalies reports does not
\* depend on the order of the input series: the same (date, value, quality)
\* triples in another order yield the same set of reported points with the
\* same deviations.
C22_OrderDoesNotMatter ==
    pc = "reordered" =>
        Entries(result.anomalies) = Entries(previous.anomalies)

\* C22 as amended: apart from points that lie at exactly 2.0 standard
\* deviations from the mean, the same triples in another order yield the
\* same set of reported points with the same values, deviations and
\* qualities.
C22_OrderMattersAtTwoDeviationsOnly ==
    pc = "reordered" =>
        \A entry \in Entries(result.anomalies) \cup Entries(previous.anomalies) :
            \/ entry \in Entries(result.anomalies) \cap Entries(previous.anomalies)
            \/ EntryAtTwoDeviations(entry)

\* C22: the two outliers exchanged, and the same two anomalies reported
C22_Witness ==
    /\ pc = "reordered"
    /\ given.values = TwoOutliers
    /\ data = Reordered(given, 1, 8)
    /\ data # given
    /\ Len(result.anomalies) = 2
    /\ Entries(result.anomalies) = Entries(previous.anomalies)

\* C22: [20,20,20,20,50.25] reports nothing and [50.25,20,20,20,20] reports
\* 50.25, whose computed deviation is then 2.0000000000000004
C22_RoundingWitness ==
    /\ pc = "reordered"
    /\ given.values = <<Num(20), Num(20), Num(20), Num(20), Rat(5025, 100)>>
    /\ data = Reordered(given, 1, 5)
    /\ previous.anomalies = <<>>
    /\ Len(result.anomalies) = 1
    /\ result.anomalies[1].value = Rat(502, 10)

-----------------------------------------------------------------------------
(* Every operation together *)

Init ==
    InitFilters \/ InitReports \/ InitTrend \/ InitAnomalies
        \/ InitSeasonality \/ InitRepeat \/ InitReordered

Next ==
    NextFilters \/ NextReports \/ NextTrend \/ NextAnomalies
        \/ NextSeasonality \/ NextRepeat \/ NextReordered

Spec == Init /\ [][Next]_vars

=============================================================================
